---- MODULE Spec2Model ----
(***************************************************************************)
(* Evaluation engine of the rider-grade service (src/main.py): override    *)
(* stores, identity resolution, TTL caches over the external API, the      *)
(* lookup (/check) and dashboard handlers, and the admin handlers.         *)
(*                                                                         *)
(* Python strings are modelled as sequences of one-character strings, so   *)
(* that strip(), lower(), regular-expression matches, key concatenation    *)
(* and ISO date parsing are computed and not assumed.  None and "" are     *)
(* both the empty sequence wherever the code reads a value as `x or ""`.   *)
(***************************************************************************)
EXTENDS Integers, Sequences, FiniteSets, TLC

(***************************************************************************)
(* Strings                                                                 *)
(***************************************************************************)
Digit == {"0", "1", "2", "3", "4", "5", "6", "7", "8", "9"}

\* the characters of the model's alphabet that the regex class \s matches
Whitespace == {" ", "\t"}

DigitVal(c) ==
  CASE c = "0" -> 0 [] c = "1" -> 1 [] c = "2" -> 2 [] c = "3" -> 3
    [] c = "4" -> 4 [] c = "5" -> 5 [] c = "6" -> 6 [] c = "7" -> 7
    [] c = "8" -> 8 [] c = "9" -> 9

DigitChar(n) ==
  CASE n = 0 -> "0" [] n = 1 -> "1" [] n = 2 -> "2" [] n = 3 -> "3"
    [] n = 4 -> "4" [] n = 5 -> "5" [] n = 6 -> "6" [] n = 7 -> "7"
    [] n = 8 -> "8" [] n = 9 -> "9"

\* str.lower() and str.upper() on the letters the model's texts use
LowerChar(c) ==
  CASE c = "K" -> "k" [] c = "I" -> "i" [] c = "M" -> "m"
    [] c = "L" -> "l" [] c = "E" -> "e" [] c = "N" -> "n"
    [] c = "D" -> "d" [] c = "T" -> "t" [] c = "R" -> "r"
    [] c = "A" -> "a" [] c = "C" -> "c" [] c = "O" -> "o"
    [] c = "U" -> "u" [] c = "X" -> "x" [] c = "P" -> "p"
    [] OTHER -> c

UpperChar(c) ==
  CASE c = "k" -> "K" [] c = "i" -> "I" [] c = "m" -> "M"
    [] c = "l" -> "L" [] c = "e" -> "E" [] c = "n" -> "N"
    [] c = "d" -> "D" [] c = "t" -> "T" [] c = "r" -> "R"
    [] c = "a" -> "A" [] c = "c" -> "C" [] c = "o" -> "O"
    [] c = "u" -> "U" [] c = "x" -> "X" [] c = "p" -> "P"
    [] OTHER -> c

lower(s) == [i \in 1..Len(s) |-> LowerChar(s[i])]

upper(s) == [i \in 1..Len(s) |-> UpperChar(s[i])]

RECURSIVE lstrip(_)
lstrip(s) == IF s # <<>> /\ Head(s) \in Whitespace THEN lstrip(Tail(s)) ELSE s

RECURSIVE rstrip(_)
rstrip(s) ==
  IF s # <<>> /\ s[Len(s)] \in Whitespace
    THEN rstrip(SubSeq(s, 1, Len(s) - 1))
    ELSE s

\* str.strip()
strip(s) == rstrip(lstrip(s))

NotWhitespace(c) == c \notin Whitespace

NotBlank(c) == c # " "

IsDigits(s) == \A i \in 1..Len(s) : s[i] \in Digit

\* `sub in s`
Contains(s, sub) ==
  \E i \in 0..(Len(s) - Len(sub)) : SubSeq(s, i + 1, i + Len(sub)) = sub

\* a variant of fullmatch_d4 that takes any number of digits
fullmatch_digits(s) == IsDigits(s)

\* re.fullmatch(r"\d{4}", s)
fullmatch_d4(s) == Len(s) = 4 /\ IsDigits(s)

\* re.sub(r"\s+", "", x or "").strip().lower()
norm_name(x) == lower(strip(SelectSeq(x, NotWhitespace)))

\* re.search(r"(\d{4})\s*$", (phone or "").replace(" ", "")): the four
\* digits that end the string once blanks are removed, trailing whitespace
\* allowed after them; "" when there are none
last4_from_phone(phone) ==
  LET p == rstrip(SelectSeq(phone, NotBlank))
      n == Len(p)
  IN  IF n >= 4 /\ IsDigits(SubSeq(p, n - 3, n)) THEN SubSeq(p, n - 3, n) ELSE <<>>

\* f"{a}|{b}"
Key(a, b) == a \o <<"|">> \o b

(***************************************************************************)
(* Dates: <<year, month, day>>; None is the empty sequence                 *)
(***************************************************************************)
None == <<>>

Min(a, b) == IF a <= b THEN a ELSE b

Max(a, b) == IF a >= b THEN a ELSE b

IsLeap(y) == (y % 4 = 0 /\ y % 100 # 0) \/ y % 400 = 0

DaysInMonth(y, m) ==
  IF m = 2 THEN (IF IsLeap(y) THEN 29 ELSE 28)
  ELSE IF m \in {4, 6, 9, 11} THEN 30 ELSE 31

DateLT(a, b) ==
  \/ a[1] < b[1]
  \/ a[1] = b[1] /\ a[2] < b[2]
  \/ a[1] = b[1] /\ a[2] = b[2] /\ a[3] < b[3]

DateLE(a, b) == a = b \/ DateLT(a, b)

DateMin(a, b) == IF DateLE(a, b) THEN a ELSE b

\* d - timedelta(days=1)
MinusOneDay(d) ==
  IF d[3] > 1 THEN <<d[1], d[2], d[3] - 1>>
  ELSE IF d[2] > 1 THEN <<d[1], d[2] - 1, DaysInMonth(d[1], d[2] - 1)>>
  ELSE <<d[1] - 1, 12, 31>>

\* d + timedelta(days=1)
PlusOneDay(d) ==
  IF d[3] < DaysInMonth(d[1], d[2]) THEN <<d[1], d[2], d[3] + 1>>
  ELSE IF d[2] < 12 THEN <<d[1], d[2] + 1, 1>>
  ELSE <<d[1] + 1, 1, 1>>

\* a variant of relativedelta_months that moves the month and keeps the day
\* as it is
relativedelta_unclamped(d, k) ==
  LET m0 == (d[2] - 1) + k
      y  == IF m0 < 0 THEN d[1] - 1 ELSE IF m0 > 11 THEN d[1] + 1 ELSE d[1]
      m  == (IF m0 < 0 THEN m0 + 12 ELSE IF m0 > 11 THEN m0 - 12 ELSE m0) + 1
  IN  <<y, m, d[3]>>

\* d + relativedelta(months=k), k in {-1, 1}: the month moves, the day is
\* kept and cut to the length of the month reached
relativedelta_months(d, k) ==
  LET m0 == (d[2] - 1) + k
      y  == IF m0 < 0 THEN d[1] - 1 ELSE IF m0 > 11 THEN d[1] + 1 ELSE d[1]
      m  == (IF m0 < 0 THEN m0 + 12 ELSE IF m0 > 11 THEN m0 - 12 ELSE m0) + 1
  IN  <<y, m, Min(d[3], DaysInMonth(y, m))>>

\* date.fromisoformat(s) succeeds: YYYY-MM-DD naming a calendar day
IsIsoDate(s) ==
  /\ Len(s) = 10
  /\ s[5] = "-" /\ s[8] = "-"
  /\ \A i \in {1, 2, 3, 4, 6, 7, 9, 10} : s[i] \in Digit
  /\ LET y == 1000 * DigitVal(s[1]) + 100 * DigitVal(s[2])
               + 10 * DigitVal(s[3]) + DigitVal(s[4])
         m == 10 * DigitVal(s[6]) + DigitVal(s[7])
         d == 10 * DigitVal(s[9]) + DigitVal(s[10])
     IN  y >= 1 /\ m \in 1..12 /\ d \in 1..DaysInMonth(y, m)

\* date.fromisoformat(s), for s with IsIsoDate(s)
fromisoformat(s) ==
  << 1000 * DigitVal(s[1]) + 100 * DigitVal(s[2]) + 10 * DigitVal(s[3]) + DigitVal(s[4]),
     10 * DigitVal(s[6]) + DigitVal(s[7]),
     10 * DigitVal(s[9]) + DigitVal(s[10]) >>

\* date.isoformat()
isoformat(d) ==
  << DigitChar(d[1] \div 1000), DigitChar((d[1] \div 100) % 10),
     DigitChar((d[1] \div 10) % 10), DigitChar(d[1] % 10), "-",
     DigitChar(d[2] \div 10), DigitChar(d[2] % 10), "-",
     DigitChar(d[3] \div 10), DigitChar(d[3] % 10) >>

safe_date_parse(s) ==
  LET t == strip(s) IN IF IsIsoDate(t) THEN fromisoformat(t) ELSE None

\* a variant of grade_from_total whose first ranked tier starts one count
\* later
grade_from_total_late(total) ==
  IF total <= 480 THEN "unranked"
  ELSE IF total <= 719 THEN "R5"
  ELSE IF total <= 959 THEN "R4"
  ELSE IF total <= 1199 THEN "R3"
  ELSE IF total <= 1439 THEN "R2"
  ELSE "R1"

(***************************************************************************)
(* Grade rules                                                             *)
(***************************************************************************)
grade_from_total(total) ==
  IF total <= 479 THEN "unranked"
  ELSE IF total <= 719 THEN "R5"
  ELSE IF total <= 959 THEN "R4"
  ELSE IF total <= 1199 THEN "R3"
  ELSE IF total <= 1439 THEN "R2"
  ELSE "R1"

thresholds ==
  << <<"unranked", 0>>, <<"R5", 480>>, <<"R4", 720>>,
     <<"R3", 960>>, <<"R2", 1200>>, <<"R1", 1440>> >>

\* a variant of next_grade_target that counts up to the last count below the
\* next threshold
next_grade_target_below(total) ==
  LET cur == grade_from_total(total)
      idx == CHOOSE i \in 1..Len(thresholds) : thresholds[i][1] = cur
  IN  IF cur = "R1" THEN <<"None", -1>>
      ELSE <<thresholds[idx + 1][1], Max(0, thresholds[idx + 1][2] - 1 - total)>>

\* (next grade, remaining count); <<"None", -1>> stands for (None, None)
next_grade_target(total) ==
  LET cur == grade_from_total(total)
      idx == CHOOSE i \in 1..Len(thresholds) : thresholds[i][1] = cur
  IN  IF cur = "R1" THEN <<"None", -1>>
      ELSE <<thresholds[idx + 1][1], Max(0, thresholds[idx + 1][2] - total)>>

(***************************************************************************)
(* Period logic                                                            *)
(***************************************************************************)
\* a variant of clamp_day that takes the target day as it is
clamp_day_unclamped(year, month, target_day) == <<year, month, target_day>>

clamp_day(year, month, target_day) ==
  LET first    == <<year, month, 1>>
      last_day == MinusOneDay(relativedelta_months(first, 1))[3]
  IN  <<year, month, Min(target_day, last_day)>>

\* a variant of current_period that starts at this month's anchor even
\* when today is before it
current_period_this_month(join_date, today_d) ==
  LET start_d == clamp_day(today_d[1], today_d[2], join_date[3])
      next_m  == relativedelta_months(<<start_d[1], start_d[2], 1>>, 1)
  IN  <<start_d, clamp_day(next_m[1], next_m[2], join_date[3])>>

\* a variant of current_period that starts at this month's anchor only
\* from the day after it
current_period_after_anchor(join_date, today_d) ==
  LET join_day    == join_date[3]
      this_anchor == clamp_day(today_d[1], today_d[2], join_day)
      prev        == relativedelta_months(<<today_d[1], today_d[2], 1>>, -1)
      start_d     == IF DateLT(this_anchor, today_d) THEN this_anchor
                     ELSE clamp_day(prev[1], prev[2], join_day)
      next_m      == relativedelta_months(<<start_d[1], start_d[2], 1>>, 1)
  IN  <<start_d, clamp_day(next_m[1], next_m[2], join_day)>>

\* <<start_d, end_inclusive>>
current_period(join_date, today_d) ==
  LET join_day    == join_date[3]
      this_anchor == clamp_day(today_d[1], today_d[2], join_day)
      prev        == relativedelta_months(<<today_d[1], today_d[2], 1>>, -1)
      start_d     == IF DateLE(this_anchor, today_d) THEN this_anchor
                     ELSE clamp_day(prev[1], prev[2], join_day)
      next_m      == relativedelta_months(<<start_d[1], start_d[2], 1>>, 1)
  IN  <<start_d, clamp_day(next_m[1], next_m[2], join_day)>>

\* a variant of period_to_from_to that leaves from_d at start_d
period_uncollapsed(start_d, end_inclusive, today_d) ==
  <<start_d, DateMin(end_inclusive, MinusOneDay(today_d))>>

\* <<from_d, to_d>>, with date.today() = today_d
period_to_from_to(start_d, end_inclusive, today_d) ==
  LET api_max == MinusOneDay(today_d)
      to_d    == DateMin(end_inclusive, api_max)
      from_d  == IF DateLT(to_d, start_d) THEN to_d ELSE start_d
  IN  <<from_d, to_d>>

(***************************************************************************)
(* Contract status                                                         *)
(***************************************************************************)
\* the Hangul syllables of the status descriptions, one token per syllable
\* ("gye","yak" = the word for contract, "jong","ryo" = the word for ended)
S_contract == <<"gye", "yak">>

S_ended == <<"jong", "ryo">>

is_ended_contract(rider) ==
  LET code == upper(rider.code)
      desc == rider.desc
  IN  \/ Contains(code, <<"E", "N", "D">>)
      \/ Contains(code, <<"T", "E", "R", "M", "I", "N">>)
      \/ Contains(code, <<"E", "X", "P", "I", "R", "E">>)
      \/ Contains(desc, S_contract) /\ Contains(desc, S_ended)

(***************************************************************************)
(* Persisted override files.  A file is [kind, data]: kind "missing" (no   *)
(* file), "corrupt" (not JSON, or JSON whose top level is no object) or    *)
(* "dict"; data maps keys to JSON values [t |-> "str" or "num", v |-> the  *)
(* characters of the value].                                               *)
(***************************************************************************)
EmptyMap == [k \in {} |-> 0]

Str(s) == [t |-> "str", v |-> s]

Num(s) == [t |-> "num", v |-> s]

MissingFile == [kind |-> "missing", data |-> EmptyMap]

CorruptFile == [kind |-> "corrupt", data |-> EmptyMap]

DictFile(m) == [kind |-> "dict", data |-> m]

\* m[k] = v (dict item assignment)
MapSet(m, k, v) == [x \in DOMAIN m \cup {k} |-> IF x = k THEN v ELSE m[x]]

\* del m[k]
MapDel(m, k) == [x \in DOMAIN m \ {k} |-> m[x]]

\* m.get(k, dflt)
MapGet(m, k, dflt) == IF k \in DOMAIN m THEN m[k] ELSE dflt

\* load_overrides(): the JSON object as it is, {} for a missing or
\* unreadable file; one critical section of _override_lock
load_overrides(file) == IF file.kind = "dict" THEN file.data ELSE EmptyMap

\* save_overrides(data): the whole map rewritten under _override_lock
save_overrides(data) == DictFile(data)

\* load_login4_map(): {str(k): str(v)}, {} for a missing or unreadable file
load_login4_map(file) ==
  IF file.kind = "dict"
    THEN [k \in DOMAIN file.data |-> file.data[k].v]
    ELSE EmptyMap

\* save_login4_map(data): data holds Python strings
save_login4_map(data) == DictFile([k \in DOMAIN data |-> Str(data[k])])

(***************************************************************************)
(* Identity resolution                                                     *)
(***************************************************************************)
\* a variant of get_login4_for_rider that takes the stored value as it is
get_login4_unstripped(rider, login4_file) ==
  LET real4  == last4_from_phone(rider.phoneNumber)
      k_real == Key(norm_name(rider.name), real4)
      m      == load_login4_map(login4_file)
  IN  IF k_real \in DOMAIN m /\ fullmatch_d4(m[k_real])
        THEN [login4 |-> m[k_real], real4 |-> real4, source |-> "override"]
        ELSE [login4 |-> real4, real4 |-> real4, source |-> "real"]

\* get_login4_for_rider(rider), reading the login4 file: (login4, real4, source)
get_login4_for_rider(rider, login4_file) ==
  LET real4  == last4_from_phone(rider.phoneNumber)
      k_real == Key(norm_name(rider.name), real4)
      m      == load_login4_map(login4_file)
  IN  IF k_real \in DOMAIN m /\ fullmatch_d4(strip(m[k_real]))
        THEN [login4 |-> strip(m[k_real]), real4 |-> real4, source |-> "override"]
        ELSE [login4 |-> real4, real4 |-> real4, source |-> "real"]

\* a variant of get_effective_join_date_by_login_key that prefers the
\* platform's createdDate to the stored override
join_date_platform_first(rider, login4, override_file, today_d) ==
  LET key  == Key(norm_name(rider.name), login4)
      data == load_overrides(override_file)
      d    == IF key \in DOMAIN data /\ data[key].t = "str"
                THEN safe_date_parse(data[key].v) ELSE None
      cr   == rider.createdDate
  IN  IF Len(cr) >= 10 /\ IsIsoDate(SubSeq(cr, 1, 10))
        THEN [raised |-> FALSE, date |-> fromisoformat(SubSeq(cr, 1, 10)),
              source |-> "createdDate"]
      ELSE IF d # None
        THEN [raised |-> FALSE, date |-> d, source |-> "override"]
      ELSE [raised |-> FALSE, date |-> today_d, source |-> "fallback"]

\* a variant of get_effective_join_date_by_login_key that looks the
\* override up under the worker's real suffix
join_date_by_real_key(rider, login4, override_file, today_d) ==
  LET key  == Key(norm_name(rider.name), last4_from_phone(rider.phoneNumber))
      data == load_overrides(override_file)
      d    == IF key \in DOMAIN data /\ data[key].t = "str"
                THEN safe_date_parse(data[key].v) ELSE None
      cr   == rider.createdDate
  IN  IF d # None
        THEN [raised |-> FALSE, date |-> d, source |-> "override"]
      ELSE IF Len(cr) >= 10 /\ IsIsoDate(SubSeq(cr, 1, 10))
        THEN [raised |-> FALSE, date |-> fromisoformat(SubSeq(cr, 1, 10)),
              source |-> "createdDate"]
      ELSE [raised |-> FALSE, date |-> today_d, source |-> "fallback"]

\* truthiness of a JSON value read from the join-override file
Truthy(jv) == IF jv.t = "str" THEN jv.v # <<>> ELSE \E i \in 1..Len(jv.v) : jv.v[i] # "0"

NoDate == [raised |-> FALSE, date |-> None, source |-> "none"]

\* get_effective_join_date_by_login_key(rider, login4), reading the join
\* file with date.today() = today_d.  raised: the call ends in an exception
\* (str method on a number, or date.fromisoformat on a malformed text)
get_effective_join_date_by_login_key(rider, login4, override_file, today_d) ==
  LET key  == Key(norm_name(rider.name), login4)
      data == load_overrides(override_file)
      has  == key \in DOMAIN data /\ Truthy(data[key])
      ov   == IF has THEN data[key] ELSE Str(<<>>)
      d    == IF has /\ ov.t = "str" THEN safe_date_parse(ov.v) ELSE None
      cr   == rider.createdDate
  IN  IF has /\ ov.t = "num"
        THEN [NoDate EXCEPT !.raised = TRUE]
      ELSE IF d # None
        THEN [raised |-> FALSE, date |-> d, source |-> "override"]
      ELSE IF Len(cr) >= 10
        THEN IF IsIsoDate(SubSeq(cr, 1, 10))
               THEN [raised |-> FALSE, date |-> fromisoformat(SubSeq(cr, 1, 10)),
                     source |-> "createdDate"]
               ELSE [NoDate EXCEPT !.raised = TRUE]
      ELSE [raised |-> FALSE, date |-> today_d, source |-> "fallback"]

(***************************************************************************)
(* Configuration (src/main.py, Config)                                     *)
(***************************************************************************)
RIDERS_CACHE_TTL == 60

STATUS_CACHE_TTL == 30

max_pages == 600

(***************************************************************************)
(* Bounds of the model                                                     *)
(***************************************************************************)
\* the clock runs from 0 to MaxNow seconds in steps of TickStep
MaxNow == 90

TickStep == 30

\* the completion API holds at most MaxExtPages non-empty pages per range
MaxExtPages == 2

(***************************************************************************)
(* The external platform: what the roster and completion calls can answer  *)
(***************************************************************************)
S_Kim == <<"K", "i", "m">>

S_kim_sp == <<"k", "i", "m", " ">>

S_Lee == <<"L", "e", "e">>

S_kim == <<"k", "i", "m">>

S_lee == <<"l", "e", "e">>

S_5678 == <<"5", "6", "7", "8">>

S_1234 == <<"1", "2", "3", "4">>

S_9999 == <<"9", "9", "9", "9">>

S_UNDER_CONTRACT ==
  <<"U", "N", "D", "E", "R", "_", "C", "O", "N", "T", "R", "A", "C", "T">>

Worker(name, phone, code, desc, created) ==
  [name |-> name, phoneNumber |-> phone, code |-> code, desc |-> desc,
   createdDate |-> created]

\* "Kim", 010-1234-5678, under contract, joined 2024-03-24
W_kim ==
  Worker(S_Kim, <<"0", "1", "0", "-", "1", "2", "3", "4", "-", "5", "6", "7", "8">>,
         S_UNDER_CONTRACT, <<"gye", "yak", "jung">>,
         <<"2", "0", "2", "4", "-", "0", "3", "-", "2", "4", "T", "0", "9">>)

\* "kim " (the same normalized name), 010 9999 1234, joined 2024-01-31
W_kim2 ==
  Worker(S_kim_sp, <<"0", "1", "0", " ", "9", "9", "9", "9", " ", "1", "2", "3", "4">>,
         S_UNDER_CONTRACT, <<>>,
         <<"2", "0", "2", "4", "-", "0", "1", "-", "3", "1">>)

\* "Kim" with a phone text that ends in no four digits, no join date
W_nop == Worker(S_Kim, <<"0", "1", "0", "-", "1", "2">>, S_UNDER_CONTRACT, <<>>, <<>>)

\* "Lee", ended by status code
W_lee ==
  Worker(S_Lee, <<"0", "1", "0", "5", "5", "5", "5", "9", "9", "9", "9">>,
         <<"C", "O", "N", "T", "R", "A", "C", "T", "_", "E", "N", "D">>, <<>>,
         <<"2", "0", "2", "4", "-", "0", "3", "-", "2", "4">>)

\* "Lee", ended by a lower-case status code
W_leeT ==
  Worker(S_Lee, <<"0", "1", "0", "5", "5", "5", "5", "9", "9", "9", "9">>,
         <<"t", "e", "r", "m", "i", "n", "a", "t", "e", "d">>, <<>>,
         <<"2", "0", "2", "4", "-", "0", "3", "-", "2", "4">>)

\* "Lee", ended by status description only
W_leeD ==
  Worker(S_Lee, <<"0", "1", "0", "5", "5", "5", "5", "9", "9", "9", "9">>,
         <<>>, <<"gye", "yak", " ", "jong", "ryo">>,
         <<"2", "0", "2", "4", "-", "0", "3", "-", "2", "4">>)

NoRider == Worker(<<>>, <<>>, <<>>, <<>>, <<>>)

RosterA == <<W_kim, W_lee, W_leeD>>

RosterB == <<W_kim, W_leeT, W_kim2, W_nop>>

RosterC == <<W_leeT, W_kim>>

\* an answer of GET /rider: HTTP status and JSON body.  kind "list": a top
\* level array; "dict": an object with the fields items and data (absent
\* reads as empty); "other": any other JSON value; "unparsable": no JSON
RosterResp(status, kind, list, items, data) ==
  [status |-> status, kind |-> kind, list |-> list, items |-> items, data |-> data]

RosterResponses ==
  {RosterResp(200, "list", RosterA, <<>>, <<>>),
   RosterResp(200, "dict", <<>>, RosterC, <<>>),
   RosterResp(200, "dict", <<>>, <<>>, RosterA),
   RosterResp(200, "other", <<>>, <<>>, <<>>),
   RosterResp(200, "unparsable", <<>>, <<>>, <<>>),
   RosterResp(401, "other", <<>>, <<>>, <<>>),
   RosterResp(403, "other", <<>>, <<>>, <<>>),
   RosterResp(500, "other", <<>>, <<>>, <<>>)}

\* a row of GET /management/rider-delivery-status
Row(name, phone, complete) == [name |-> name, phoneNumber |-> phone, complete |-> complete]

PageA == <<Row(S_Kim, W_kim.phoneNumber, 500)>>

PageB == <<Row(S_kim_sp, W_kim2.phoneNumber, 1450), Row(S_Kim, W_kim.phoneNumber, 100),
           Row(S_Kim, W_nop.phoneNumber, 700)>>

\* an answer of the completion call; kind "dict": an object whose data is
\* rows; "list": a JSON value that is no object; "unparsable": no JSON
StatusResp(status, kind, rows) == [status |-> status, kind |-> kind, rows |-> rows]

\* the answers the completion source can give to the call of each page
StatusResponses ==
  [page \in 0..max_pages |->
     {StatusResp(200, "dict", <<>>), StatusResp(200, "list", <<>>),
      StatusResp(200, "unparsable", <<>>), StatusResp(401, "dict", <<>>),
      StatusResp(403, "dict", <<>>), StatusResp(500, "dict", <<>>)}
       \cup (IF page < MaxExtPages THEN {StatusResp(200, "dict", PageA)} ELSE {})]

(***************************************************************************)
(* State                                                                   *)
(***************************************************************************)
VARIABLES
  now,             \* time.time(), seconds
  today,           \* date.today()
  OVERRIDE_FILE,   \* join_overrides.json
  LOGIN4_FILE,     \* login4_overrides.json
  riders_cache,    \* _riders_cache: [ts, has (data is not None), data]
  status_cache,    \* _status_cache: key -> [ts, data]
  th               \* the request each worker thread is serving, with its locals

vars == <<now, today, OVERRIDE_FILE, LOGIN4_FILE, riders_cache, status_cache, th>>

Threads == {"t1", "t2"}

NoArgs ==
  [name |-> <<>>, login4 |-> <<>>, is_admin |-> FALSE, q |-> <<>>, key |-> <<>>,
   join_date |-> <<>>, name_norm |-> <<>>, real4 |-> <<>>, form |-> <<>>]

\* the locals of lines 645-660 (check) and of an item of lines 899-937 (dashboard)
NoEval ==
  [raised |-> FALSE, rider |-> NoRider, nn |-> <<>>, real4 |-> <<>>, login4 |-> <<>>,
   login_src |-> "none", real_key |-> <<>>, login_key |-> <<>>,
   eff_join |-> None, join_src |-> "none",
   cur_start |-> None, cur_end_incl |-> None, cur_from |-> None, cur_to |-> None,
   prev_start |-> None, prev_end_incl |-> None, prev_from |-> None, prev_to |-> None]

NoOut ==
  [kind |-> "none", ev |-> NoEval, cur_completed |-> 0, prev_completed |-> 0,
   planned_grade |-> "none", current_grade |-> "none", nxt |-> <<"None", -1>>,
   join_note |-> "none", rows |-> <<>>]

\* what a request did, kept for the properties: external calls made, whether
\* one answered 401/403, whether one failed otherwise, the completion-cache
\* reads it made (key, clock, whether a live entry was there, that entry's
\* ts) and the pagination runs it started (key, ts of the run)
NoHist ==
  [ext |-> 0, e401 |-> FALSE, eOther |-> FALSE, runs |-> <<>>, reads |-> <<>>]

IdleTh ==
  [pc |-> "idle", kind |-> "none", args |-> NoArgs, caller |-> "none",
   name_in |-> <<>>, login4 |-> <<>>,
   now_l |-> 0, items |-> <<>>, riders |-> <<>>, rider |-> NoRider, ev |-> NoEval,
   from_d |-> None, to_d |-> None, key_cache |-> <<>>, s_now |-> 0,
   complete |-> EmptyMap, page |-> 0, phase |-> "none",
   cmap_cur |-> EmptyMap, cmap_prev |-> EmptyMap,
   rows |-> <<>>, groups |-> <<>>, np |-> 0, gi |-> 0, cmaps |-> <<>>,
   data |-> EmptyMap, out |-> NoOut, h |-> NoHist]

\* the handler returns the response o: its locals are dropped; the request,
\* the response and the history stay until the response is sent
Finish(l, o) ==
  [IdleTh EXCEPT !.pc = "done", !.kind = l.kind, !.args = l.args, !.out = o, !.h = l.h]

Outcome(kind) == [NoOut EXCEPT !.kind = kind]

(***************************************************************************)
(* pw_get_json and the cached API wrappers                                 *)
(***************************************************************************)
\* pw_get_json(): the exception the answer raises, "ok" when r.json() returns
pw_get_json(resp) ==
  IF resp.status \in {401, 403} THEN "PermissionError"
  ELSE IF resp.status >= 400 THEN "RuntimeError"
  ELSE IF resp.kind = "unparsable" THEN "ValueError"
  ELSE "ok"

\* the history of a request after an external call that answered resp
NoteCall(l, exc) ==
  [l EXCEPT !.h.ext = @ + 1,
            !.h.e401 = @ \/ exc = "PermissionError",
            !.h.eOther = @ \/ exc \notin {"ok", "PermissionError"}]

\* a variant of riders_raise that serves the cached roster after a failed call
riders_serve_stale(l, exc) ==
  [l EXCEPT !.riders = riders_cache.data,
            !.pc = IF l.caller = "check" THEN "check_match" ELSE "dash_build"]

\* an exception leaves fetch_riders_cached(): check() and dashboard() catch
\* PermissionError alone; any other exception leaves the handler (HTTP 500)
riders_raise(l, exc) ==
  IF exc = "PermissionError" THEN Finish(l, Outcome("AuthExpired"))
  ELSE Finish(l, Outcome("Error"))

\* fetch_riders_cached() returns riders to its caller
riders_return(l, riders) ==
  [l EXCEPT !.riders = riders,
            !.pc = IF l.caller = "check" THEN "check_match" ELSE "dash_build"]

\* a call of fetch_status_complete_map_cached(from_d, to_d)
status_call(l, from_d, to_d) ==
  [l EXCEPT !.pc = "status_read", !.from_d = from_d, !.to_d = to_d]

\* an exception leaves fetch_status_complete_map_cached(): check() catches
\* PermissionError; dashboard() calls it outside any try block
status_raise(l, exc) ==
  IF l.caller = "check" /\ exc = "PermissionError"
    THEN Finish(l, Outcome("AuthExpired"))
    ELSE Finish(l, Outcome("Error"))

\* fetch_status_complete_map_cached() returns data to its caller: check()
\* asks for the current range and then for the previous one; dashboard()
\* walks the previous groups and then the current groups
status_return(l, data) ==
  IF l.caller = "check"
    THEN IF l.phase = "cur"
           THEN [status_call(l, l.ev.prev_from, l.ev.prev_to)
                   EXCEPT !.cmap_cur = data, !.phase = "prev"]
           ELSE [l EXCEPT !.cmap_prev = data, !.pc = "check_finish"]
    ELSE IF l.gi < Len(l.groups)
           THEN [status_call(l, l.groups[l.gi + 1][1], l.groups[l.gi + 1][2])
                   EXCEPT !.cmaps = Append(@, data), !.gi = @ + 1]
           ELSE [l EXCEPT !.cmaps = Append(@, data), !.pc = "dash_finish"]

\* a variant of NotEnded that filters nobody out
KeepEvery(r) == TRUE

NotEnded(r) == ~is_ended_contract(r)

\* the list fetch_riders_cached() reads out of the JSON body
roster_items(resp) ==
  IF resp.kind = "list" THEN resp.list
  ELSE IF resp.kind = "dict"
    THEN (IF resp.items # <<>> THEN resp.items ELSE resp.data)
  ELSE <<>>

\* fetch_riders_cached(), lines 410-412: a live entry is returned
riders_read(t) ==
  /\ th[t].pc = "riders_read"
  /\ th' = [th EXCEPT ![t] =
              IF riders_cache.has /\ now - riders_cache.ts <= RIDERS_CACHE_TTL
                THEN riders_return(@, riders_cache.data)
                ELSE [@ EXCEPT !.pc = "riders_call", !.now_l = now]]
  /\ UNCHANGED <<now, today, OVERRIDE_FILE, LOGIN4_FILE, riders_cache, status_cache>>

\* fetch_riders_cached(), lines 414-435: the external call, the filter and
\* the first of the two cache assignments
riders_call(t, Responses) ==
  /\ th[t].pc = "riders_call"
  /\ \E resp \in Responses :
       LET exc == pw_get_json(resp)
           l   == NoteCall(th[t], exc)
       IN  IF exc # "ok"
             THEN /\ th' = [th EXCEPT ![t] = riders_raise(l, exc)]
                  /\ UNCHANGED riders_cache
             ELSE /\ th' = [th EXCEPT ![t] =
                              [l EXCEPT !.pc = "riders_store",
                                        !.items = SelectSeq(roster_items(resp), NotEnded)]]
                  /\ riders_cache' = [riders_cache EXCEPT !.ts = l.now_l]
  /\ UNCHANGED <<now, today, OVERRIDE_FILE, LOGIN4_FILE, status_cache>>

\* fetch_riders_cached(), lines 436-437: the second cache assignment
riders_store(t) ==
  /\ th[t].pc = "riders_store"
  /\ riders_cache' = [riders_cache EXCEPT !.has = TRUE, !.data = th[t].items]
  /\ th' = [th EXCEPT ![t] = riders_return([@ EXCEPT !.items = <<>>], th[t].items)]
  /\ UNCHANGED <<now, today, OVERRIDE_FILE, LOGIN4_FILE, status_cache>>

\* f"{from_d.isoformat()}_{to_d.isoformat()}"
key_cache_of(from_d, to_d) == isoformat(from_d) \o <<"_">> \o isoformat(to_d)

\* lines 446-450: the range cut to yesterday, <<from_d, to_d>>
status_clip(from_d, to_d, today_d) ==
  LET to1   == IF DateLE(today_d, to_d) THEN MinusOneDay(today_d) ELSE to_d
      from1 == IF DateLT(to1, from_d) THEN to1 ELSE from_d
  IN  <<from1, to1>>

\* lines 477-484: the rows of one page written into complete
RECURSIVE accumulate(_, _)
accumulate(complete, rows) ==
  IF rows = <<>> THEN complete
  ELSE LET it    == Head(rows)
           real4 == last4_from_phone(it.phoneNumber)
           k     == Key(norm_name(it.name), real4)
       IN  accumulate(IF real4 # <<>> THEN MapSet(complete, k, it.complete) ELSE complete,
                      Tail(rows))

\* a variant of status_hit that takes an entry exactly STATUS_CACHE_TTL
\* seconds old for expired
status_hit_strict(cache, key, now_f) ==
  key \in DOMAIN cache /\ now_f - cache[key].ts < STATUS_CACHE_TTL

\* lines 454-455: `cached and now - cached["ts"] <= STATUS_CACHE_TTL`
status_hit(cache, key, now_f) ==
  key \in DOMAIN cache /\ now_f - cache[key].ts <= STATUS_CACHE_TTL

\* the completion-cache read of a request, for its history
NoteRead(l, key) ==
  [l EXCEPT !.h.reads =
     Append(@, [key  |-> key, at |-> now,
                live |-> key \in DOMAIN status_cache /\ now <= status_cache[key].ts + 30,
                ts   |-> IF key \in DOMAIN status_cache THEN status_cache[key].ts ELSE -1])]

\* fetch_status_complete_map_cached(), lines 446-461: a live entry is
\* returned, otherwise a pagination run starts
status_read(t) ==
  /\ th[t].pc = "status_read"
  /\ LET clip == status_clip(th[t].from_d, th[t].to_d, today)
         key  == key_cache_of(clip[1], clip[2])
         l    == NoteRead(th[t], key)
     IN  th' = [th EXCEPT ![t] =
                  IF status_hit(status_cache, key, now)
                    THEN status_return(l, status_cache[key].data)
                    ELSE [l EXCEPT !.pc = "status_page", !.from_d = clip[1], !.to_d = clip[2],
                                   !.key_cache = key, !.s_now = now,
                                   !.complete = EmptyMap, !.page = 0,
                                   !.h.runs = Append(@, <<key, now>>)]]
  /\ UNCHANGED <<now, today, OVERRIDE_FILE, LOGIN4_FILE, riders_cache, status_cache>>

\* a variant of status_store that keeps no other entry
status_store_alone(l) == l.key_cache :> [ts |-> l.s_now, data |-> l.complete]

\* the pagination run is over: lines 488-489
status_store(l) == MapSet(status_cache, l.key_cache, [ts |-> l.s_now, data |-> l.complete])

\* a variant of next_page that asks for the same page again
next_page_same(page) == page

\* line 486: `page += 1`
next_page(page) == page + 1

\* fetch_status_complete_map_cached(), lines 463-489: one turn of the loop
status_page(t, Responses) ==
  /\ th[t].pc = "status_page"
  /\ IF th[t].page < max_pages
       THEN \E resp \in Responses[th[t].page] :
              LET exc0 == pw_get_json(resp)
                  exc  == IF exc0 = "ok" /\ resp.kind # "dict" THEN "AttributeError" ELSE exc0
                  l    == NoteCall(th[t], exc)
              IN  IF exc # "ok"
                    THEN /\ th' = [th EXCEPT ![t] = status_raise(l, exc)]
                         /\ UNCHANGED status_cache
                  ELSE IF resp.rows = <<>>
                    THEN /\ status_cache' = status_store(l)
                         /\ th' = [th EXCEPT ![t] = status_return(l, l.complete)]
                  ELSE /\ th' = [th EXCEPT ![t] =
                                   [l EXCEPT !.complete = accumulate(@, resp.rows),
                                             !.page = next_page(@)]]
                       /\ UNCHANGED status_cache
       ELSE /\ status_cache' = status_store(th[t])
            /\ th' = [th EXCEPT ![t] = status_return(@, th[t].complete)]
  /\ UNCHANGED <<now, today, OVERRIDE_FILE, LOGIN4_FILE, riders_cache>>

(***************************************************************************)
(* POST /check                                                             *)
(***************************************************************************)
\* a variant of check_matches that compares the real suffix
check_matches_real(riders, name_in, login4, login4_file) ==
  SelectSeq(riders,
            LAMBDA r : /\ norm_name(r.name) = name_in
                       /\ last4_from_phone(r.phoneNumber) = login4)

\* lines 614-620: the riders of the name whose login4 is the one typed
check_matches(riders, name_in, login4, login4_file) ==
  SelectSeq(riders,
            LAMBDA r : /\ norm_name(r.name) = name_in
                       /\ get_login4_for_rider(r, login4_file).login4 = login4)

\* lines 654-660 (check) and 912-937 (dashboard): the locals of one rider,
\* given its resolved login lg, its join date jd and its current period cur
evaluate_periods(rider, lg, jd, cur, prev_start, today_d) ==
  [raised |-> FALSE, rider |-> rider, nn |-> norm_name(rider.name),
   real4 |-> lg.real4, login4 |-> lg.login4, login_src |-> lg.source,
   real_key |-> Key(norm_name(rider.name), lg.real4),
   login_key |-> Key(norm_name(rider.name), lg.login4),
   eff_join |-> jd.date, join_src |-> jd.source,
   cur_start |-> cur[1], cur_end_incl |-> cur[2],
   cur_from |-> period_to_from_to(cur[1], cur[2], today_d)[1],
   cur_to |-> period_to_from_to(cur[1], cur[2], today_d)[2],
   prev_start |-> prev_start, prev_end_incl |-> MinusOneDay(cur[1]),
   prev_from |-> period_to_from_to(prev_start, MinusOneDay(cur[1]), today_d)[1],
   prev_to |-> period_to_from_to(prev_start, MinusOneDay(cur[1]), today_d)[2]]

\* lines 651-660: the periods of the rider whose join date is jd; an
\* exception of the join-date resolution ends the evaluation
evaluate_joined(rider, lg, jd, today_d) ==
  IF jd.raised THEN [NoEval EXCEPT !.raised = TRUE, !.rider = rider]
  ELSE evaluate_periods(rider, lg, jd, current_period(jd.date, today_d),
                        relativedelta_months(current_period(jd.date, today_d)[1], -1),
                        today_d)

\* lines 648-649: the join date of the rider whose resolved login is lg
evaluate_login(rider, lg, override_file, today_d) ==
  evaluate_joined(rider, lg,
                  get_effective_join_date_by_login_key(rider, lg.login4, override_file,
                                                       today_d),
                  today_d)

\* lines 645-660: the identity, the join date and the two periods of rider
check_evaluate(rider, login4_file, override_file, today_d) ==
  evaluate_login(rider, get_login4_for_rider(rider, login4_file), override_file, today_d)

\* a variant of check_result that reads the counts under the login key
check_result_login_key(l) ==
  LET api_key        == Key(l.name_in, l.ev.login4)
      cur_completed  == MapGet(l.cmap_cur, api_key, 0)
      prev_completed == MapGet(l.cmap_prev, api_key, 0)
  IN  [kind |-> "Result", ev |-> l.ev,
       cur_completed |-> cur_completed, prev_completed |-> prev_completed,
       planned_grade |-> grade_from_total(cur_completed),
       current_grade |-> grade_from_total(prev_completed),
       nxt |-> next_grade_target(cur_completed),
       join_note |-> IF l.ev.join_src = "override" THEN "admin" ELSE "platform",
       rows |-> <<>>]

\* lines 676-693: the response of a lookup that found its rider
check_result(l) ==
  LET api_key        == Key(l.name_in, l.ev.real4)
      cur_completed  == MapGet(l.cmap_cur, api_key, 0)
      prev_completed == MapGet(l.cmap_prev, api_key, 0)
  IN  [kind |-> "Result", ev |-> l.ev,
       cur_completed |-> cur_completed, prev_completed |-> prev_completed,
       planned_grade |-> grade_from_total(cur_completed),
       current_grade |-> grade_from_total(prev_completed),
       nxt |-> next_grade_target(cur_completed),
       join_note |-> IF l.ev.join_src = "override" THEN "admin" ELSE "platform",
       rows |-> <<>>]

\* check(), lines 588-602: a request arrives, its input is normalized and
\* validated; with a valid suffix the roster is asked for
check(t, Names, Suffixes) ==
  /\ th[t].pc = "idle"
  /\ \E name \in Names, login4 \in Suffixes :
       LET l == [IdleTh EXCEPT !.kind = "check", !.caller = "check",
                               !.args = [NoArgs EXCEPT !.name = name, !.login4 = login4],
                               !.name_in = norm_name(name), !.login4 = strip(login4)]
       IN  th' = [th EXCEPT ![t] =
                    IF ~fullmatch_d4(l.login4) THEN Finish(l, Outcome("InvalidInput"))
                    ELSE [l EXCEPT !.pc = "riders_read"]]
  /\ UNCHANGED <<now, today, OVERRIDE_FILE, LOGIN4_FILE, riders_cache, status_cache>>

\* check(), lines 614-643
check_match(t) ==
  /\ th[t].pc = "check_match"
  /\ LET l       == th[t]
         matches == check_matches(l.riders, l.name_in, l.login4, LOGIN4_FILE)
     IN  th' = [th EXCEPT ![t] =
                  IF matches = <<>> THEN Finish(l, Outcome("NotFound"))
                  ELSE IF Len(matches) >= 2 THEN Finish(l, Outcome("Ambiguous"))
                  ELSE [l EXCEPT !.pc = "check_resolve", !.rider = matches[1]]]
  /\ UNCHANGED <<now, today, OVERRIDE_FILE, LOGIN4_FILE, riders_cache, status_cache>>

\* check(), lines 645-663: an exception of the join-date resolution leaves
\* the handler; otherwise the current range is asked for
check_resolve(t) ==
  /\ th[t].pc = "check_resolve"
  /\ LET l  == th[t]
         ev == check_evaluate(l.rider, LOGIN4_FILE, OVERRIDE_FILE, today)
     IN  th' = [th EXCEPT ![t] =
                  IF ev.raised THEN Finish(l, Outcome("Error"))
                  ELSE [status_call(l, ev.cur_from, ev.cur_to)
                          EXCEPT !.ev = ev, !.phase = "cur"]]
  /\ UNCHANGED <<now, today, OVERRIDE_FILE, LOGIN4_FILE, riders_cache, status_cache>>

\* check(), lines 676-732
check_finish(t) ==
  /\ th[t].pc = "check_finish"
  /\ th' = [th EXCEPT ![t] = Finish(@, check_result(@))]
  /\ UNCHANGED <<now, today, OVERRIDE_FILE, LOGIN4_FILE, riders_cache, status_cache>>

(***************************************************************************)
(* GET /dashboard                                                          *)
(***************************************************************************)
RECURSIVE Dedup(_)
\* the keys of a dict in insertion order
Dedup(s) ==
  IF s = <<>> THEN <<>>
  ELSE <<Head(s)>> \o SelectSeq(Dedup(Tail(s)), LAMBDA x : x # Head(s))

\* lines 880-888: the riders the dashboard lists
dashboard_rider_rows(riders, q) ==
  LET qn == norm_name(q)
  IN  SelectSeq(riders,
                LAMBDA rr : LET real4 == last4_from_phone(rr.phoneNumber)
                            IN  /\ real4 # <<>>
                                /\ qn = <<>> \/ Contains(norm_name(rr.name) \o real4, qn))

\* lines 899-937: the item of one listed rider
dashboard_item(rr, login4_file, override_file, today_d) ==
  evaluate_login(rr, get_login4_for_rider(rr, login4_file), override_file, today_d)

RECURSIVE prev_assign(_, _, _, _)
\* lines 948-949 for the items of one previous group
prev_assign(m, items, grp, cmap) ==
  IF items = <<>> THEN m
  ELSE LET it == Head(items)
       IN  prev_assign(IF <<it.prev_from, it.prev_to>> = grp
                         THEN MapSet(m, it.real_key, MapGet(cmap, it.real_key, 0))
                         ELSE m,
                       Tail(items), grp, cmap)

RECURSIVE prev_completed_map(_, _, _, _, _)
\* lines 945-949: groups 1..np are the previous groups
prev_completed_map(m, items, groups, cmaps, i) ==
  IF i > Len(cmaps) \/ i > Len(groups) THEN m
  ELSE prev_completed_map(prev_assign(m, items, groups[i], cmaps[i]),
                          items, groups, cmaps, i + 1)

\* a variant of dashboard_row that grades the two counts the other way round
dashboard_row_swapped(it, cmap, prev_map) ==
  LET cur_completed  == MapGet(cmap, it.real_key, 0)
      prev_completed == MapGet(prev_map, it.real_key, 0)
  IN  [kind |-> "Row", ev |-> it,
       cur_completed |-> cur_completed, prev_completed |-> prev_completed,
       planned_grade |-> grade_from_total(prev_completed),
       current_grade |-> grade_from_total(cur_completed),
       nxt |-> next_grade_target(cur_completed),
       join_note |-> IF it.join_src = "override" THEN "admin" ELSE "platform",
       rows |-> <<>>]

\* lines 955-1004: the row of one item of a current group
dashboard_row(it, cmap, prev_map) ==
  LET cur_completed  == MapGet(cmap, it.real_key, 0)
      prev_completed == MapGet(prev_map, it.real_key, 0)
  IN  [kind |-> "Row", ev |-> it,
       cur_completed |-> cur_completed, prev_completed |-> prev_completed,
       planned_grade |-> grade_from_total(cur_completed),
       current_grade |-> grade_from_total(prev_completed),
       nxt |-> next_grade_target(cur_completed),
       join_note |-> IF it.join_src = "override" THEN "admin" ELSE "platform",
       rows |-> <<>>]

RECURSIVE final_rows(_, _, _, _, _, _)
\* lines 952-1004: groups np+1.. are the current groups
final_rows(items, groups, cmaps, prev_map, np, j) ==
  IF j > Len(groups) THEN <<>>
  ELSE LET mine == SelectSeq(items, LAMBDA it : <<it.cur_from, it.cur_to>> = groups[j])
       IN  [i \in 1..Len(mine) |-> dashboard_row(mine[i], cmaps[j], prev_map)]
             \o final_rows(items, groups, cmaps, prev_map, np, j + 1)

RECURSIVE sort_rows(_)
\* line 1006: the stable sort by cur_completed, largest first
sort_rows(rows) ==
  IF rows = <<>> THEN <<>>
  ELSE LET n    == Len(rows)
           x    == rows[n]
           done == sort_rows(SubSeq(rows, 1, n - 1))
           k    == Cardinality({i \in 1..Len(done) : done[i].cur_completed >= x.cur_completed})
       IN  SubSeq(done, 1, k) \o <<x>> \o SubSeq(done, k + 1, Len(done))

\* dashboard(), lines 857-862: the admin gate, then the roster is asked for
dashboard(t, Qs) ==
  /\ th[t].pc = "idle"
  /\ \E is_admin \in BOOLEAN, q \in Qs :
       LET l == [IdleTh EXCEPT !.kind = "dashboard", !.caller = "dashboard",
                               !.args = [NoArgs EXCEPT !.is_admin = is_admin, !.q = q]]
       IN  th' = [th EXCEPT ![t] =
                    IF ~is_admin THEN Finish(l, Outcome("RedirectLogin"))
                    ELSE [l EXCEPT !.pc = "riders_read"]]
  /\ UNCHANGED <<now, today, OVERRIDE_FILE, LOGIN4_FILE, riders_cache, status_cache>>

\* lines 944-947: with the groups known, the first one is asked for
dashboard_groups(l, items, prev_group, groups) ==
  IF \E i \in 1..Len(items) : items[i].raised THEN Finish(l, Outcome("Error"))
  ELSE IF groups = <<>> THEN [l EXCEPT !.pc = "dash_finish"]
  ELSE [status_call(l, groups[1][1], groups[1][2])
          EXCEPT !.rows = items, !.groups = groups, !.np = Len(prev_group), !.gi = 1]

\* lines 939-953: the previous groups are walked before the current ones,
\* each in the order its dict got its keys
dashboard_grouped(l, items, prev_group, cur_group) ==
  dashboard_groups(l, items, prev_group, prev_group \o cur_group)

\* lines 892-942: the items grouped by their previous and current ranges
dashboard_items(l, items) ==
  dashboard_grouped(l, items,
                    Dedup([i \in 1..Len(items) |-> <<items[i].prev_from, items[i].prev_to>>]),
                    Dedup([i \in 1..Len(items) |-> <<items[i].cur_from, items[i].cur_to>>]))

\* lines 899-937: one item per listed rider
dashboard_listed(l, rider_rows, login4_file, override_file, today_d) ==
  dashboard_items(l, [i \in 1..Len(rider_rows) |->
                        dashboard_item(rider_rows[i], login4_file, override_file, today_d)])

\* dashboard(), lines 873-947: the items and the groups are built, the
\* first group is asked for
dash_build(t) ==
  /\ th[t].pc = "dash_build"
  /\ th' = [th EXCEPT ![t] =
              dashboard_listed(@, dashboard_rider_rows(@.riders, @.args.q),
                               LOGIN4_FILE, OVERRIDE_FILE, today)]
  /\ UNCHANGED <<now, today, OVERRIDE_FILE, LOGIN4_FILE, riders_cache, status_cache>>

\* dashboard(), lines 945-1006 once every group is fetched
dash_finish(t) ==
  /\ th[t].pc = "dash_finish"
  /\ LET l        == th[t]
         prev_map == prev_completed_map(EmptyMap, l.rows, SubSeq(l.groups, 1, l.np),
                                        l.cmaps, 1)
         rows     == sort_rows(final_rows(l.rows, l.groups, l.cmaps, prev_map, l.np, l.np + 1))
     IN  th' = [th EXCEPT ![t] = Finish(l, [Outcome("Rows") EXCEPT !.rows = rows])]
  /\ UNCHANGED <<now, today, OVERRIDE_FILE, LOGIN4_FILE, riders_cache, status_cache>>

(***************************************************************************)
(* Admin handlers.  Every load_* and save_* call is one critical section   *)
(* of its file's lock, hence one atomic step; the lock is released between *)
(* the load and the save of a handler.                                     *)
(***************************************************************************)
\* a variant of set_login4_override that keys the entry by the login suffix
set_login4_by_login(m, name_norm, real4, login4) ==
  MapSet(m, Key(name_norm, login4), real4)

\* a variant of set_login4_override that takes the entry out when the key
\* is already there
set_login4_toggle(m, name_norm, real4, login4) ==
  IF Key(name_norm, real4) \in DOMAIN m
    THEN MapDel(m, Key(name_norm, real4))
    ELSE MapSet(m, Key(name_norm, real4), login4)

\* set_login4_override(), lines 280-281: the loaded map with the key set
set_login4_override(m, name_norm, real4, login4) ==
  MapSet(m, Key(name_norm, real4), login4)

\* clear_login4_override(), lines 286-289: the loaded map without the key
clear_login4_override(m, name_norm, real4) ==
  MapDel(m, Key(name_norm, real4))

\* admin_set_join(), lines 788-797: gate, validation, load_overrides()
admin_set_join(t, Keys, Dates) ==
  /\ th[t].pc = "idle"
  /\ \E is_admin \in BOOLEAN, key \in Keys, join_date \in Dates :
       LET l == [IdleTh EXCEPT !.kind = "admin_set_join",
                               !.args = [NoArgs EXCEPT !.is_admin = is_admin, !.key = key,
                                                       !.join_date = join_date]]
       IN  th' = [th EXCEPT ![t] =
                    IF ~is_admin THEN Finish(l, Outcome("RedirectLogin"))
                    ELSE IF strip(key) = <<>> \/ safe_date_parse(join_date) = None
                      THEN Finish(l, Outcome("Redirect"))
                    ELSE [l EXCEPT !.pc = "set_join_save",
                                   !.data = load_overrides(OVERRIDE_FILE)]]
  /\ UNCHANGED <<now, today, OVERRIDE_FILE, LOGIN4_FILE, riders_cache, status_cache>>

\* admin_set_join(), lines 798-800: data[key] = jd.isoformat(); save_overrides(data)
admin_set_join_save(t) ==
  /\ th[t].pc = "set_join_save"
  /\ LET l == th[t]
     IN  /\ OVERRIDE_FILE' =
              save_overrides(MapSet(l.data, strip(l.args.key),
                                    Str(isoformat(safe_date_parse(l.args.join_date)))))
         /\ th' = [th EXCEPT ![t] = Finish(l, Outcome("Redirect"))]
  /\ UNCHANGED <<now, today, LOGIN4_FILE, riders_cache, status_cache>>

\* admin_clear_join(), lines 805-811: gate, load_overrides(), `key in data`
admin_clear_join(t, Keys) ==
  /\ th[t].pc = "idle"
  /\ \E is_admin \in BOOLEAN, key \in Keys :
       LET l    == [IdleTh EXCEPT !.kind = "admin_clear_join",
                                  !.args = [NoArgs EXCEPT !.is_admin = is_admin, !.key = key]]
           data == load_overrides(OVERRIDE_FILE)
       IN  th' = [th EXCEPT ![t] =
                    IF ~is_admin THEN Finish(l, Outcome("RedirectLogin"))
                    ELSE IF strip(key) \notin DOMAIN data THEN Finish(l, Outcome("Redirect"))
                    ELSE [l EXCEPT !.pc = "clear_join_save", !.data = data]]
  /\ UNCHANGED <<now, today, OVERRIDE_FILE, LOGIN4_FILE, riders_cache, status_cache>>

\* admin_clear_join(), lines 812-814: del data[key]; save_overrides(data)
admin_clear_join_save(t) ==
  /\ th[t].pc = "clear_join_save"
  /\ OVERRIDE_FILE' = save_overrides(MapDel(th[t].data, strip(th[t].args.key)))
  /\ th' = [th EXCEPT ![t] = Finish(@, Outcome("Redirect"))]
  /\ UNCHANGED <<now, today, LOGIN4_FILE, riders_cache, status_cache>>

\* admin_set_login4(), lines 822-833, and load_login4_map() of line 280.
\* Idents are the <<name_norm, real4>> pairs the form can send
\* (args.form keeps the fields as sent, lines 826-828 strip them)
admin_set_login4(t, Idents, Suffixes) ==
  /\ th[t].pc = "idle"
  /\ \E is_admin \in BOOLEAN, id \in Idents, login4 \in Suffixes :
       LET l == [IdleTh EXCEPT !.kind = "admin_set_login4",
                               !.args = [NoArgs EXCEPT !.is_admin = is_admin,
                                                       !.form = <<id[1], id[2], login4>>,
                                                       !.name_norm = strip(id[1]),
                                                       !.real4 = strip(id[2]),
                                                       !.login4 = strip(login4)]]
       IN  th' = [th EXCEPT ![t] =
                    IF ~is_admin THEN Finish(l, Outcome("RedirectLogin"))
                    ELSE IF \/ l.args.name_norm = <<>>
                            \/ ~fullmatch_d4(l.args.real4)
                            \/ ~fullmatch_d4(l.args.login4)
                      THEN Finish(l, Outcome("Redirect"))
                    ELSE [l EXCEPT !.pc = "set_login4_save",
                                   !.data = load_login4_map(LOGIN4_FILE)]]
  /\ UNCHANGED <<now, today, OVERRIDE_FILE, LOGIN4_FILE, riders_cache, status_cache>>

\* set_login4_override(), lines 281-282, then the redirect of line 834
admin_set_login4_save(t) ==
  /\ th[t].pc = "set_login4_save"
  /\ LET l == th[t]
     IN  /\ LOGIN4_FILE' =
              save_login4_map(set_login4_override(l.data, l.args.name_norm, l.args.real4,
                                                  l.args.login4))
         /\ th' = [th EXCEPT ![t] = Finish(l, Outcome("Redirect"))]
  /\ UNCHANGED <<now, today, OVERRIDE_FILE, riders_cache, status_cache>>

\* admin_clear_login4(), lines 839-848, and load_login4_map() of line 286
admin_clear_login4(t, Idents) ==
  /\ th[t].pc = "idle"
  /\ \E is_admin \in BOOLEAN, id \in Idents :
       LET l == [IdleTh EXCEPT !.kind = "admin_clear_login4",
                               !.args = [NoArgs EXCEPT !.is_admin = is_admin,
                                                       !.form = <<id[1], id[2]>>,
                                                       !.name_norm = strip(id[1]),
                                                       !.real4 = strip(id[2])]]
       IN  th' = [th EXCEPT ![t] =
                    IF ~is_admin THEN Finish(l, Outcome("RedirectLogin"))
                    ELSE IF l.args.name_norm = <<>> \/ ~fullmatch_d4(l.args.real4)
                      THEN Finish(l, Outcome("Redirect"))
                    ELSE [l EXCEPT !.pc = "clear_login4_save",
                                   !.data = load_login4_map(LOGIN4_FILE)]]
  /\ UNCHANGED <<now, today, OVERRIDE_FILE, LOGIN4_FILE, riders_cache, status_cache>>

\* clear_login4_override(), lines 287-290, then the redirect of line 849
admin_clear_login4_save(t) ==
  /\ th[t].pc = "clear_login4_save"
  /\ LET l == th[t]
     IN  /\ LOGIN4_FILE' =
              save_login4_map(clear_login4_override(l.data, l.args.name_norm, l.args.real4))
         /\ th' = [th EXCEPT ![t] = Finish(l, Outcome("Redirect"))]
  /\ UNCHANGED <<now, today, OVERRIDE_FILE, riders_cache, status_cache>>

\* the response is sent and the thread goes back to the pool
respond(t) ==
  /\ th[t].pc = "done"
  /\ th' = [th EXCEPT ![t] = IdleTh]
  /\ UNCHANGED <<now, today, OVERRIDE_FILE, LOGIN4_FILE, riders_cache, status_cache>>

(***************************************************************************)
(* Time                                                                    *)
(***************************************************************************)
Tick(limit) ==
  /\ now + TickStep <= limit
  /\ now' = now + TickStep
  /\ UNCHANGED <<today, OVERRIDE_FILE, LOGIN4_FILE, riders_cache, status_cache, th>>

(***************************************************************************)
(* The requests and the stored files the specifications draw from          *)
(***************************************************************************)
Today0 == <<2025, 1, 10>>

S_kIM_sp == <<" ", "k", "I", "M">>

K_kim_5678 == Key(S_kim, S_5678)

K_kim_9999 == Key(S_kim, S_9999)

K_kim_empty == Key(S_kim, <<>>)

K_lee_9999 == Key(S_lee, S_9999)

K_lee_5678 == Key(S_lee, S_5678)

D_2023_11_24 == <<"2", "0", "2", "3", "-", "1", "1", "-", "2", "4">>

NoRidersCache == [ts |-> 0, has |-> FALSE, data |-> <<>>]

(***************************************************************************)
(* Spec: one worker thread serves lookups and admin requests one after     *)
(* another, within one second                                              *)
(***************************************************************************)
LookupNames == {S_kIM_sp}

LookupSuffixes ==
  {S_5678, S_9999, <<"5", "6", "7", "8", " ">>, <<"5", "6", "7">>, <<"5", "6", "7", "x">>}

JoinKeys == {K_kim_5678, <<" ">> \o K_kim_9999, <<" ">>}

JoinDates == {D_2023_11_24, <<"2", "0", "2", "3", "-", "0", "2", "-", "3", "0">>}

LoginIdents ==
  {<<S_kim, S_5678>>, <<S_kim, S_1234>>, <<S_kim, <<"1", "2">>>>, <<<<>>, S_5678>>}

LoginSuffixes == {S_9999, <<" ", "5", "6", "7", "8">>, <<"9", "9">>}

\* login4_overrides.json as the service can find it at start: absent,
\* unreadable, or an object left by earlier runs or written by hand
InitLogin4Files ==
  {MissingFile, CorruptFile,
   DictFile(K_kim_5678 :> Str(<<" ", "9", "9", "9", "9">>)),
   DictFile(K_kim_5678 :> Num(S_9999)),
   DictFile(K_kim_empty :> Str(S_9999))}

InitOverrideFiles ==
  {MissingFile,
   DictFile(K_kim_9999 :> Str(<<"2", "0", "2", "3", "-", "1", "1", "-", "2", "4", " ">>))}

IdRosterResponses ==
  {RosterResp(200, "list", RosterB, <<>>, <<>>), RosterResp(500, "other", <<>>, <<>>, <<>>)}

\* the completion source of this specification: one page of rows, then the
\* empty page; any call can fail
IdPages ==
  [page \in 0..max_pages |->
     {StatusResp(500, "dict", <<>>)}
       \cup (IF page < 1 THEN {StatusResp(200, "dict", PageB)}
                         ELSE {StatusResp(200, "dict", <<>>)})]

Init ==
  /\ now = 0
  /\ today = Today0
  /\ OVERRIDE_FILE \in InitOverrideFiles
  /\ LOGIN4_FILE \in InitLogin4Files
  /\ riders_cache = NoRidersCache
  /\ status_cache = EmptyMap
  /\ th = [t \in Threads |-> IdleTh]

Next ==
  \E t \in {"t1"} :
    \/ check(t, LookupNames, LookupSuffixes)
    \/ riders_read(t)
    \/ riders_call(t, IdRosterResponses)
    \/ riders_store(t)
    \/ check_match(t)
    \/ check_resolve(t)
    \/ status_read(t)
    \/ status_page(t, IdPages)
    \/ check_finish(t)
    \/ admin_set_join(t, JoinKeys, JoinDates)
    \/ admin_set_join_save(t)
    \/ admin_clear_join(t, JoinKeys)
    \/ admin_clear_join_save(t)
    \/ admin_set_login4(t, LoginIdents, LoginSuffixes)
    \/ admin_set_login4_save(t)
    \/ admin_clear_login4(t, LoginIdents)
    \/ admin_clear_login4_save(t)
    \/ respond(t)

Spec == Init /\ [][Next]_vars

(***************************************************************************)
(* SpecFetch: one worker thread serves lookups and dashboards while time   *)
(* passes and the external source may fail; the override files are fixed   *)
(***************************************************************************)
FetchNames == {S_kIM_sp, S_Lee}

FetchSuffixes == {S_5678, S_9999}

FetchQs == {<<>>, S_Lee}

FetchLogin4Files ==
  {MissingFile, DictFile(K_lee_9999 :> Str(S_5678))}

FetchOverrideFiles ==
  {MissingFile, DictFile(K_lee_5678 :> Str(D_2023_11_24))}

InitFetch ==
  /\ now = 0
  /\ today = Today0
  /\ OVERRIDE_FILE \in FetchOverrideFiles
  /\ LOGIN4_FILE \in FetchLogin4Files
  /\ riders_cache = NoRidersCache
  /\ status_cache = EmptyMap
  /\ th = [t \in Threads |-> IdleTh]

NextFetch ==
  \/ Tick(MaxNow)
  \/ \E t \in {"t1"} :
       \/ check(t, FetchNames, FetchSuffixes)
       \/ dashboard(t, FetchQs)
       \/ riders_read(t)
       \/ riders_call(t, RosterResponses)
       \/ riders_store(t)
       \/ check_match(t)
       \/ check_resolve(t)
       \/ dash_build(t)
       \/ status_read(t)
       \/ status_page(t, StatusResponses)
       \/ check_finish(t)
       \/ dash_finish(t)
       \/ respond(t)

SpecFetch == InitFetch /\ [][NextFetch]_vars

(***************************************************************************)
(* SpecCache: two worker threads serve lookups of one worker, one after    *)
(* the other or at the same time, while time passes                        *)
(***************************************************************************)
CacheNames == {S_Kim}

CacheSuffixes == {S_5678}

CacheRosterResponses == {RosterResp(200, "list", RosterA, <<>>, <<>>)}

\* the completion source of this specification: one page of rows, then the
\* empty page; any call can fail
CachePages ==
  [page \in 0..max_pages |->
     {StatusResp(500, "dict", <<>>)}
       \cup (IF page < 1 THEN {StatusResp(200, "dict", PageA)}
                         ELSE {StatusResp(200, "dict", <<>>)})]

\* the clock of this specification stops here
CacheMaxNow == 60

InitCache ==
  /\ now = 0
  /\ today = Today0
  /\ OVERRIDE_FILE = MissingFile
  /\ LOGIN4_FILE = MissingFile
  /\ riders_cache = NoRidersCache
  /\ status_cache = EmptyMap
  /\ th = [t \in Threads |-> IdleTh]

NextCache ==
  \/ Tick(CacheMaxNow)
  \/ \E t \in Threads :
       \/ check(t, CacheNames, CacheSuffixes)
       \/ riders_read(t)
       \/ riders_call(t, CacheRosterResponses)
       \/ riders_store(t)
       \/ check_match(t)
       \/ check_resolve(t)
       \/ status_read(t)
       \/ status_page(t, CachePages)
       \/ check_finish(t)
       \/ respond(t)

SpecCache == InitCache /\ [][NextCache]_vars

(***************************************************************************)
(* SpecOverride: two worker threads serve one admin edit each of the       *)
(* override maps, one after the other or at the same time                  *)
(***************************************************************************)
EditJoinKeys == {K_kim_5678, K_lee_5678}

EditJoinDates == {D_2023_11_24}

EditIdents == {<<S_kim, S_5678>>, <<S_lee, S_9999>>}

EditSuffixes == {S_1234}

InitOverride ==
  /\ now = 0
  /\ today = Today0
  /\ OVERRIDE_FILE \in {MissingFile, DictFile(K_kim_5678 :> Str(D_2023_11_24))}
  /\ LOGIN4_FILE \in {MissingFile, DictFile(K_lee_9999 :> Str(S_5678))}
  /\ riders_cache = NoRidersCache
  /\ status_cache = EmptyMap
  /\ th = [t \in Threads |-> IdleTh]

NextOverride ==
  \E t \in Threads :
    \/ admin_set_join(t, EditJoinKeys, EditJoinDates)
    \/ admin_set_join_save(t)
    \/ admin_clear_join(t, EditJoinKeys)
    \/ admin_clear_join_save(t)
    \/ admin_set_login4(t, EditIdents, EditSuffixes)
    \/ admin_set_login4_save(t)
    \/ admin_clear_login4(t, EditIdents)
    \/ admin_clear_login4_save(t)

SpecOverride == InitOverride /\ [][NextOverride]_vars

(***************************************************************************)
(* SpecPeriod: one worker thread serves lookups and dashboards of one      *)
(* worker on any day of seven months, the platform reporting any of eight  *)
(* createdDate texts; on one day the override files are found in any of    *)
(* their readable and unreadable forms.  fetch_status_complete_map_cached  *)
(* is also called with ranges no caller has cut.                           *)
(***************************************************************************)
DaysOfMonth(ym) == {<<ym[1], ym[2], d>> : d \in 1..DaysInMonth(ym[1], ym[2])}

\* a turn of the year, a leap February and a common February
PeriodMonths ==
  {<<2023, 12>>, <<2024, 1>>, <<2024, 2>>, <<2024, 3>>,
   <<2025, 1>>, <<2025, 2>>, <<2025, 3>>}

PeriodDays == UNION {DaysOfMonth(ym) : ym \in PeriodMonths}

\* createdDate as the platform can report it: a timestamp, plain dates on
\* the days 31, 30, 29 and 1, no value, a text shorter than a date, and a
\* text of 10 characters in another notation
C_slashes == <<"2", "4", "/", "0", "3", "/", "2", "0", "2", "4">>

C_short == <<"2", "0", "2", "4", "-", "0", "3">>

PeriodCreated ==
  {W_kim.createdDate, W_kim2.createdDate,
   <<"2", "0", "2", "3", "-", "1", "1", "-", "3", "0">>,
   <<"2", "0", "2", "4", "-", "0", "2", "-", "2", "9">>,
   <<"2", "0", "2", "3", "-", "0", "5", "-", "0", "1">>,
   <<>>, C_short, C_slashes}

PeriodRosterResponses ==
  {RosterResp(200, "list", <<[W_kim EXCEPT !.createdDate = c]>>, <<>>, <<>>) :
     c \in PeriodCreated}

PeriodPages ==
  [page \in 0..max_pages |->
     IF page < 1 THEN {StatusResp(200, "dict", PageA)} ELSE {StatusResp(200, "dict", <<>>)}]

PeriodNames == {S_Kim}

PeriodSuffixes == {S_5678, S_9999}

PeriodQs == {<<>>}

D_20231124 == <<"2", "0", "2", "3", "1", "1", "2", "4">>

\* join_overrides.json: absent, unreadable, a number or a text that is no
\* date stored for the worker
StoreOverrideFiles ==
  {MissingFile, CorruptFile,
   DictFile(K_kim_5678 :> Num(D_20231124)),
   DictFile(K_kim_5678 :> Str(C_slashes))}

\* login4_overrides.json: absent, unreadable, a number stored for the worker
StoreLogin4Files ==
  {MissingFile, CorruptFile, DictFile(K_kim_5678 :> Num(S_9999))}

\* the ranges a caller can pass around the day d: past, up to d, beyond d,
\* and inverted
RangeDays(d) == {MinusOneDay(MinusOneDay(d)), MinusOneDay(d), d, PlusOneDay(d)}

\* fetch_status_complete_map_cached(from_d, to_d), lines 446-452, called
\* with any range: the range is cut and the cache key is built
status_range(t) ==
  /\ th[t].pc = "idle"
  /\ \E from_d \in RangeDays(today), to_d \in RangeDays(today) :
       LET clip == status_clip(from_d, to_d, today)
       IN  th' = [th EXCEPT ![t] =
                    [IdleTh EXCEPT !.pc = "done", !.kind = "status_range",
                                   !.ev = [NoEval EXCEPT !.cur_from = from_d, !.cur_to = to_d],
                                   !.from_d = clip[1], !.to_d = clip[2],
                                   !.key_cache = key_cache_of(clip[1], clip[2])]]
  /\ UNCHANGED <<now, today, OVERRIDE_FILE, LOGIN4_FILE, riders_cache, status_cache>>

InitPeriod ==
  /\ now = 0
  /\ \/ today \in PeriodDays /\ OVERRIDE_FILE = MissingFile /\ LOGIN4_FILE = MissingFile
     \/ today = Today0 /\ OVERRIDE_FILE \in StoreOverrideFiles
                       /\ LOGIN4_FILE \in StoreLogin4Files
  /\ riders_cache = NoRidersCache
  /\ status_cache = EmptyMap
  /\ th = [t \in Threads |-> IdleTh]

NextPeriod ==
  \E t \in {"t1"} :
    \/ check(t, PeriodNames, PeriodSuffixes)
    \/ dashboard(t, PeriodQs)
    \/ status_range(t)
    \/ riders_read(t)
    \/ riders_call(t, PeriodRosterResponses)
    \/ riders_store(t)
    \/ check_match(t)
    \/ check_resolve(t)
    \/ dash_build(t)
    \/ status_read(t)
    \/ status_page(t, PeriodPages)
    \/ check_finish(t)
    \/ dash_finish(t)
    \/ respond(t)

SpecPeriod == InitPeriod /\ [][NextPeriod]_vars

(***************************************************************************)
(* SpecPure: clamp_day, grade_from_total and next_grade_target applied to  *)
(* every input of bounded sets                                             *)
(***************************************************************************)
\* a century year that is no leap year, one that is, a common year and a
\* leap year
ClampYears == {1900, 2000, 2023, 2024}

\* the largest target day
MaxDay == 31

\* the largest completed count
MaxTotal == 1500

\* clamp_day(year, month, target_day) is called: the arguments are kept in
\* from_d, the date returned in to_d
apply_clamp_day(t) ==
  /\ th[t].pc = "idle"
  /\ \E year \in ClampYears, month \in 1..12, target_day \in 1..MaxDay :
       th' = [th EXCEPT ![t] =
                [IdleTh EXCEPT !.pc = "done", !.kind = "clamp_day",
                               !.from_d = <<year, month, target_day>>,
                               !.to_d = clamp_day(year, month, target_day)]]
  /\ UNCHANGED <<now, today, OVERRIDE_FILE, LOGIN4_FILE, riders_cache, status_cache>>

\* lines 681-683 of check(): the grade and the next target of a count
apply_grade(t) ==
  /\ th[t].pc = "idle"
  /\ \E total \in 0..MaxTotal :
       th' = [th EXCEPT ![t] =
                [IdleTh EXCEPT !.pc = "done", !.kind = "grade",
                               !.out = [NoOut EXCEPT !.kind = "Grade",
                                                     !.cur_completed = total,
                                                     !.planned_grade = grade_from_total(total),
                                                     !.nxt = next_grade_target(total)]]]
  /\ UNCHANGED <<now, today, OVERRIDE_FILE, LOGIN4_FILE, riders_cache, status_cache>>

InitPure ==
  /\ now = 0
  /\ today = Today0
  /\ OVERRIDE_FILE = MissingFile
  /\ LOGIN4_FILE = MissingFile
  /\ riders_cache = NoRidersCache
  /\ status_cache = EmptyMap
  /\ th = [t \in Threads |-> IdleTh]

NextPure ==
  \E t \in {"t1"} :
    \/ apply_clamp_day(t)
    \/ apply_grade(t)
    \/ respond(t)

SpecPure == InitPure /\ [][NextPure]_vars

(***************************************************************************)
(* SpecRoster: two worker threads serve lookups while time passes and the  *)
(* platform's roster changes between two calls; the name asked for is on   *)
(* no roster, so every lookup ends once it has the roster                  *)
(***************************************************************************)
RefetchRosterResponses ==
  {RosterResp(200, "list", <<W_kim>>, <<>>, <<>>),
   RosterResp(200, "list", <<W_kim, W_kim2>>, <<>>, <<>>)}

RefetchNames == {S_Lee}

InitRoster ==
  /\ now = 0
  /\ today = Today0
  /\ OVERRIDE_FILE = MissingFile
  /\ LOGIN4_FILE = MissingFile
  /\ riders_cache = NoRidersCache
  /\ status_cache = EmptyMap
  /\ th = [t \in Threads |-> IdleTh]

NextRoster ==
  \/ Tick(MaxNow)
  \/ \E t \in Threads :
       \/ check(t, RefetchNames, CacheSuffixes)
       \/ riders_read(t)
       \/ riders_call(t, RefetchRosterResponses)
       \/ riders_store(t)
       \/ check_match(t)
       \/ respond(t)

SpecRoster == InitRoster /\ [][NextRoster]_vars

(***************************************************************************)
(* SpecCounts: one worker thread serves lookups and dashboards on one day  *)
(* while a minute passes.                                                  *)
(* The roster lists workers whose windows differ, two of them under the    *)
(* same name and last four digits; the completion source answers each      *)
(* range with one of two pages; one worker can have a login override       *)
(***************************************************************************)
\* another "Kim" whose phone ends in 5678, joined 2024-01-05
W_kimB ==
  [W_kim EXCEPT !.phoneNumber = <<"0", "1", "0", "-", "7", "7", "7", "7", "-", "5", "6", "7", "8">>,
                !.createdDate = <<"2", "0", "2", "4", "-", "0", "1", "-", "0", "5">>]

\* "Lee", 010 5555 9999, under contract, joined 2023-06-24
W_leeN ==
  [W_lee EXCEPT !.code = S_UNDER_CONTRACT,
                !.createdDate = <<"2", "0", "2", "3", "-", "0", "6", "-", "2", "4">>]

CountsRosterResponses ==
  {RosterResp(200, "list", <<W_kim, W_kimB>>, <<>>, <<>>),
   RosterResp(200, "list", <<W_kim, W_kim2, W_leeN>>, <<>>, <<>>)}

\* rows under kim|1234, kim|5678 and kim|9999; no row for "Lee"
CountsPageX ==
  <<Row(S_kim_sp, W_kim2.phoneNumber, 1450), Row(S_Kim, W_kim.phoneNumber, 100),
    Row(S_Kim, W_lee.phoneNumber, 7)>>

CountsPageY == <<Row(S_Kim, W_kimB.phoneNumber, 500)>>

CountsPages ==
  [page \in 0..max_pages |->
     IF page < 1 THEN {StatusResp(200, "dict", CountsPageX), StatusResp(200, "dict", CountsPageY)}
     ELSE {StatusResp(200, "dict", <<>>)}]

CountsNames == {S_Kim, S_Lee}

CountsSuffixes == {S_5678, S_9999, S_1234}

K_kim_1234 == Key(S_kim, S_1234)

CountsLogin4Files == {MissingFile, DictFile(K_kim_1234 :> Str(S_9999))}

InitCounts ==
  /\ now = 0
  /\ today = Today0
  /\ OVERRIDE_FILE = MissingFile
  /\ LOGIN4_FILE \in CountsLogin4Files
  /\ riders_cache = NoRidersCache
  /\ status_cache = EmptyMap
  /\ th = [t \in Threads |-> IdleTh]

NextCounts ==
  \/ Tick(CacheMaxNow)
  \/ \E t \in {"t1"} :
       \/ check(t, CountsNames, CountsSuffixes)
       \/ dashboard(t, PeriodQs)
       \/ riders_read(t)
       \/ riders_call(t, CountsRosterResponses)
       \/ riders_store(t)
       \/ check_match(t)
       \/ check_resolve(t)
       \/ dash_build(t)
       \/ status_read(t)
       \/ status_page(t, CountsPages)
       \/ check_finish(t)
       \/ dash_finish(t)
       \/ respond(t)

SpecCounts == InitCounts /\ [][NextCounts]_vars

(***************************************************************************)
(* SpecPages: one worker thread serves lookups while the completion source *)
(* answers every page of every range with rows and never with an empty     *)
(* page; the thread runs until its request is answered                     *)
(***************************************************************************)
\* every page the source is asked for holds a row
EndlessPages == [page \in 0..max_pages |-> {StatusResp(200, "dict", PageA)}]

InitPages ==
  /\ now = 0
  /\ today = Today0
  /\ OVERRIDE_FILE = MissingFile
  /\ LOGIN4_FILE = MissingFile
  /\ riders_cache = NoRidersCache
  /\ status_cache = EmptyMap
  /\ th = [t \in Threads |-> IdleTh]

NextPages ==
  \E t \in {"t1"} :
    \/ check(t, PeriodNames, PeriodSuffixes)
    \/ riders_read(t)
    \/ riders_call(t, RefetchRosterResponses)
    \/ riders_store(t)
    \/ check_match(t)
    \/ check_resolve(t)
    \/ status_read(t)
    \/ status_page(t, EndlessPages)
    \/ check_finish(t)
    \/ respond(t)

\* the loop of lines 463-486 is straight-line code around a call that
\* returns or raises: a thread inside the loop takes its next turn
SpecPages ==
  InitPages /\ [][NextPages]_vars /\ WF_vars(status_page("t1", EndlessPages))

(***************************************************************************)
(* SpecOverlap: one worker thread serves dashboards on a day on which the  *)
(* previous range of one listed worker is the current range of another,    *)
(* while a minute passes                                                   *)
(***************************************************************************)
\* "Lee", under contract, joined on a 28th
W_lee28 ==
  [W_lee EXCEPT !.code = S_UNDER_CONTRACT,
                !.createdDate = <<"2", "0", "2", "4", "-", "0", "2", "-", "2", "8">>]

\* the day after the short month's clamped anchor of a worker who joined
\* on a 31st, and the anchor of one who joined on a 28th
OverlapDay == <<2025, 3, 28>>

\* a roster on which two workers have the same ranges, and one on which
\* the ranges of two workers overlap
OverlapRosterResponses ==
  {RosterResp(200, "list", <<W_kim, W_kim2, W_leeN>>, <<>>, <<>>),
   RosterResp(200, "list", <<W_kim2, W_lee28>>, <<>>, <<>>)}

InitOverlap ==
  /\ now = 0
  /\ today = OverlapDay
  /\ OVERRIDE_FILE = MissingFile
  /\ LOGIN4_FILE = MissingFile
  /\ riders_cache = NoRidersCache
  /\ status_cache = EmptyMap
  /\ th = [t \in Threads |-> IdleTh]

NextOverlap ==
  \/ Tick(CacheMaxNow)
  \/ \E t \in {"t1"} :
       \/ dashboard(t, PeriodQs)
       \/ riders_read(t)
       \/ riders_call(t, OverlapRosterResponses)
       \/ riders_store(t)
       \/ dash_build(t)
       \/ status_read(t)
       \/ status_page(t, PeriodPages)
       \/ dash_finish(t)
       \/ respond(t)

SpecOverlap == InitOverlap /\ [][NextOverlap]_vars

(***************************************************************************)
(* C1: override edits and lost updates                                     *)
(***************************************************************************)
\* thread t has served an admin edit of the join-override map
JoinEdit(t) ==
  /\ th[t].pc = "done"
  /\ th[t].kind \in {"admin_set_join", "admin_clear_join"}
  /\ th[t].args.is_admin

\* the join-override file shows the edit thread t served
JoinReflects(t) ==
  LET data == load_overrides(OVERRIDE_FILE)
      key  == strip(th[t].args.key)
  IN  IF th[t].kind = "admin_set_join"
        THEN key \in DOMAIN data /\ data[key] = Str(th[t].args.join_date)
        ELSE key \notin DOMAIN data

\* thread t has served an admin edit of the login-override map
LoginEdit(t) ==
  /\ th[t].pc = "done"
  /\ th[t].kind \in {"admin_set_login4", "admin_clear_login4"}
  /\ th[t].args.is_admin

\* the login-override file shows the edit thread t served
LoginReflects(t) ==
  LET m == load_login4_map(LOGIN4_FILE)
      k == Key(th[t].args.name_norm, th[t].args.real4)
  IN  IF th[t].kind = "admin_set_login4"
        THEN k \in DOMAIN m /\ m[k] = th[t].args.login4
        ELSE k \notin DOMAIN m

\* C1: once two admin edits of different keys of one override map are both
\* served, whatever their interleaving, the stored map shows both edits
C1_NoLostUpdate ==
  \A t \in Threads, u \in Threads :
    /\ (JoinEdit(t) /\ JoinEdit(u) /\ strip(th[t].args.key) # strip(th[u].args.key))
         => JoinReflects(t) /\ JoinReflects(u)
    /\ (LoginEdit(t) /\ LoginEdit(u)
          /\ Key(th[t].args.name_norm, th[t].args.real4)
               # Key(th[u].args.name_norm, th[u].args.real4))
         => LoginReflects(t) /\ LoginReflects(u)

(***************************************************************************)
(* C2: lookups sharing a completion-cache entry                            *)
(***************************************************************************)
\* thread t has served a lookup that returned an evaluation result
LookupServed(t) ==
  th[t].pc = "done" /\ th[t].kind = "check" /\ th[t].out.kind = "Result"

\* the pagination runs request t started for the window key
RunsFor(t, key) ==
  Cardinality({i \in 1..Len(th[t].h.runs) : th[t].h.runs[i][1] = key})

CallFailed(t) ==
  /\ th'[t].h.ext = th[t].h.ext + 1
  /\ \/ th'[t].h.e401 /\ ~th[t].h.e401
     \/ th'[t].h.eOther /\ ~th[t].h.eOther

\* C3: a step in which an external call of a request fails (401/403, another
\* status >= 400, an unparsable or misshapen body), on the roster call or on
\* any completion page, changes neither cache, and ends the request with a
\* failure outcome instead of a payload
C3_FailureLeavesCache ==
  [][\A t \in Threads :
       CallFailed(t)
         => /\ riders_cache' = riders_cache
            /\ status_cache' = status_cache
            /\ th'[t].pc = "done"
            /\ th'[t].out.kind \in {"AuthExpired", "Error"}
            /\ th'[t].out.rows = <<>>]_vars

\* a request whose completion call failed on a refetch: the window it asked
\* for still has its older entry, with rows in it
C3_FailureLeavesCache_witness ==
  \E t \in Threads :
    /\ th[t].pc = "done" /\ (th[t].h.e401 \/ th[t].h.eOther)
    /\ th[t].h.runs # <<>>
    /\ LET key == th[t].h.runs[Len(th[t].h.runs)][1]
       IN  /\ key \in DOMAIN status_cache
           /\ status_cache[key].data # EmptyMap
           /\ status_cache[key].ts + 30 < now
    /\ riders_cache.has

(***************************************************************************)
(* C4: AuthExpired against the generic failure                             *)
(***************************************************************************)
\* C4: a served lookup or dashboard request one of whose external calls
\* answered 401/403 has the outcome AuthExpired, and one whose external call
\* failed otherwise has the generic failure outcome
C4_AuthExpiredDistinct ==
  \A t \in Threads :
    (th[t].pc = "done" /\ th[t].kind \in {"check", "dashboard"})
      => /\ th[t].h.e401 => th[t].out.kind = "AuthExpired"
         /\ th[t].h.eOther => th[t].out.kind = "Error"

(***************************************************************************)
(* C5: workers whose contract has ended                                    *)
(***************************************************************************)
EndedWorkers == {W_lee, W_leeT, W_leeD}

Ended(r) == r \in EndedWorkers \/ is_ended_contract(r)

\* C5: the cached roster holds no worker whose contract has ended, and no
\* lookup result and no dashboard row is about such a worker, whatever
\* overrides are stored for the worker
C5_EndedNeverShown ==
  /\ \A i \in 1..Len(riders_cache.data) : ~Ended(riders_cache.data[i])
  /\ \A t \in Threads :
       /\ \A i \in 1..Len(th[t].riders) : ~Ended(th[t].riders[i])
       /\ th[t].out.kind = "Result" => ~Ended(th[t].out.ev.rider)
       /\ \A i \in 1..Len(th[t].out.rows) : ~Ended(th[t].out.rows[i].ev.rider)

\* a lookup of the ended worker Lee by the overridden login suffix stored
\* for Lee fetched the roster and found nobody, while a join override is
\* stored for Lee as well
C5_EndedNeverShown_witness ==
  \E t \in Threads :
    /\ th[t].pc = "done" /\ th[t].kind = "check" /\ th[t].out.kind = "NotFound"
    /\ th[t].args.name = S_Lee /\ th[t].args.login4 = S_5678
    /\ th[t].h.ext = 1
    /\ K_lee_9999 \in DOMAIN load_login4_map(LOGIN4_FILE)
    /\ load_login4_map(LOGIN4_FILE)[K_lee_9999] = S_5678
    /\ K_lee_5678 \in DOMAIN load_overrides(OVERRIDE_FILE)

(***************************************************************************)
(* C6: the outcomes of a lookup                                            *)
(***************************************************************************)
\* thread t has served a lookup
LookupDone(t) == th[t].pc = "done" /\ th[t].kind = "check"

\* the positions of the cached roster a lookup of (name, suffix) is for:
\* same normalized name, resolved login suffix equal to the suffix
Matching(name, suffix) ==
  {i \in 1..Len(riders_cache.data) :
     /\ norm_name(riders_cache.data[i].name) = norm_name(name)
     /\ get_login4_for_rider(riders_cache.data[i], LOGIN4_FILE).login4 = suffix}

\* C6 as stated: a lookup whose supplied suffix is not exactly 4 digits
\* ends in InvalidInput
C6_InvalidInputExact ==
  \A t \in Threads :
    (LookupDone(t) /\ ~fullmatch_d4(th[t].args.login4)) => th[t].out.kind = "InvalidInput"

\* C6, amended: a lookup ends in InvalidInput, with no external call made,
\* exactly when the supplied suffix without its surrounding whitespace is
\* not 4 digits; it returns a result only when exactly one roster worker has
\* the normalized name and that suffix as resolved login suffix, and the
\* result is that worker's; it returns NotFound exactly when none has, and
\* Ambiguous, with no worker's data, exactly when two or more have
C6_LookupOutcome ==
  \A t \in Threads :
    LookupDone(t) =>
      LET suffix == strip(th[t].args.login4)
          found  == Matching(th[t].args.name, suffix)
          o      == th[t].out
      IN  /\ o.kind = "InvalidInput" <=> ~fullmatch_d4(suffix)
          /\ o.kind = "InvalidInput" => th[t].h.ext = 0
          /\ o.kind = "Result"
               => /\ Cardinality(found) = 1
                  /\ \A i \in found : o.ev.rider = riders_cache.data[i]
          /\ o.kind \in {"Result", "NotFound", "Ambiguous"}
               => /\ o.kind = "NotFound" <=> found = {}
                  /\ o.kind = "Ambiguous" <=> Cardinality(found) >= 2
          /\ o.kind # "Result" => o.ev = NoEval /\ o.cur_completed = 0 /\ o.prev_completed = 0

\* a lookup was answered Ambiguous: two roster workers of the name resolve
\* to the suffix
C6_LookupOutcome_witness ==
  \E t \in Threads :
    /\ LookupDone(t) /\ th[t].out.kind = "Ambiguous"
    /\ Cardinality(Matching(th[t].args.name, strip(th[t].args.login4))) = 2

(***************************************************************************)
(* C7: setting and clearing a login override                               *)
(***************************************************************************)
\* the workers the external roster can hold
RosterWorkers == {RosterB[i] : i \in 1..Len(RosterB)}

\* the workers with the identity (name_norm, real4)
WorkersOf(name_norm, real4) ==
  {w \in RosterWorkers :
     norm_name(w.name) = name_norm /\ last4_from_phone(w.phoneNumber) = real4}

\* C7: the save of setLoginOverride(nameNorm, realSuffix, loginSuffix) with
\* a login suffix other than the real one leaves a map under which a lookup
\* matches the worker by the override suffix and no longer by the real
\* suffix; the save of clearLoginOverride leaves a map under which the real
\* suffix matches again.  And every served lookup of Kim 5678 agrees with
\* the stored map: under an override it finds the worker by the override
\* suffix alone
C7_LoginOverrideSwitch ==
  /\ [][\A t \in Threads :
          LET a == th[t].args
          IN  /\ (th[t].pc = "set_login4_save" /\ th'[t].pc = "done" /\ a.login4 # a.real4)
                   => \A w \in WorkersOf(a.name_norm, a.real4) :
                        /\ check_matches(<<w>>, a.name_norm, a.real4, LOGIN4_FILE') = <<>>
                        /\ check_matches(<<w>>, a.name_norm, a.login4, LOGIN4_FILE') = <<w>>
              /\ (th[t].pc = "clear_login4_save" /\ th'[t].pc = "done")
                   => \A w \in WorkersOf(a.name_norm, a.real4) :
                        check_matches(<<w>>, a.name_norm, a.real4, LOGIN4_FILE') = <<w>>]_vars
  /\ [](\A t \in Threads :
          (LookupDone(t) /\ th[t].out.kind \in {"Result", "NotFound", "Ambiguous"}
             /\ norm_name(th[t].args.name) = S_kim)
            => LET m      == load_login4_map(LOGIN4_FILE)
                   over   == K_kim_5678 \in DOMAIN m /\ fullmatch_d4(strip(m[K_kim_5678]))
                   suffix == strip(th[t].args.login4)
                   hit    == \/ th[t].out.kind = "Result" /\ th[t].out.ev.rider = W_kim
                             \/ th[t].out.kind = "Ambiguous"
               IN  /\ (over /\ strip(m[K_kim_5678]) # S_5678 /\ suffix = S_5678) => ~hit
                   /\ (over /\ suffix = strip(m[K_kim_5678])) => hit
                   /\ (~over /\ suffix = S_5678) => hit)

\* after an admin set the override Kim 5678 -> 9999, a lookup of Kim by the
\* real suffix 5678 was answered NotFound
C7_LoginOverrideSwitch_witness ==
  \E t \in Threads :
    /\ LookupDone(t) /\ th[t].out.kind = "NotFound"
    /\ norm_name(th[t].args.name) = S_kim /\ th[t].args.login4 = S_5678
    /\ LOGIN4_FILE.kind = "dict" /\ K_kim_5678 \in DOMAIN LOGIN4_FILE.data
    /\ LOGIN4_FILE.data[K_kim_5678] = Str(S_9999)

(***************************************************************************)
(* C8: resolveLogin                                                        *)
(***************************************************************************)
\* thread t has served a lookup that returned an evaluation result (any
\* specification)
ResultOf(t) == LookupDone(t) /\ th[t].out.kind = "Result"

\* what a result says resolveLogin returned for its worker
Resolved(t) ==
  [login4 |-> th[t].out.ev.login4, real4 |-> th[t].out.ev.real4,
   source |-> th[t].out.ev.login_src]

\* C8 as stated: the result of a lookup carries (realSuffix, realSuffix,
\* real) when the login-override map has no entry under
\* normalize(name)|realSuffix or the stored value is not exactly 4 digits,
\* and (stored value, realSuffix, override) otherwise
C8_ResolveLoginExact ==
  \A t \in Threads :
    ResultOf(t) =>
      LET w     == th[t].out.ev.rider
          real4 == last4_from_phone(w.phoneNumber)
          k     == Key(norm_name(w.name), real4)
          m     == load_login4_map(LOGIN4_FILE)
      IN  IF k \in DOMAIN m /\ fullmatch_d4(m[k])
            THEN Resolved(t) = [login4 |-> m[k], real4 |-> real4, source |-> "override"]
            ELSE Resolved(t) = [login4 |-> real4, real4 |-> real4, source |-> "real"]

\* what C8, amended, says resolveLogin returns for worker w under the map m
ResolveLoginAmended(w, m) ==
  LET real4 == last4_from_phone(w.phoneNumber)
      k     == Key(norm_name(w.name), real4)
  IN  IF k \in DOMAIN m /\ fullmatch_d4(strip(m[k]))
        THEN [login4 |-> strip(m[k]), real4 |-> real4, source |-> "override"]
        ELSE [login4 |-> real4, real4 |-> real4, source |-> "real"]

\* C8, amended: resolveLogin returns (realSuffix, realSuffix, real) when the
\* map has no entry under normalize(name)|realSuffix or the stored value
\* without its surrounding whitespace is not exactly 4 digits, and (the
\* stored value without its surrounding whitespace, realSuffix, override)
\* otherwise; the returned login suffix is exactly 4 digits or the real
\* suffix.  Stated for every roster worker under the stored map, and for
\* the worker of every lookup result
C8_ResolveLogin ==
  /\ \A w \in RosterWorkers :
       LET r == get_login4_for_rider(w, LOGIN4_FILE)
       IN  /\ r = ResolveLoginAmended(w, load_login4_map(LOGIN4_FILE))
           /\ fullmatch_d4(r.login4) \/ r.login4 = r.real4
  /\ \A t \in Threads :
       ResultOf(t) =>
         /\ Resolved(t) = ResolveLoginAmended(th[t].out.ev.rider, load_login4_map(LOGIN4_FILE))
         /\ fullmatch_d4(Resolved(t).login4) \/ Resolved(t).login4 = Resolved(t).real4

\* a lookup result whose login suffix comes from a stored value that is
\* padded with whitespace
C8_ResolveLogin_witness ==
  \E t \in Threads :
    /\ ResultOf(t) /\ Resolved(t).source = "override"
    /\ LET k == Key(norm_name(th[t].out.ev.rider.name), Resolved(t).real4)
       IN  /\ LOGIN4_FILE.kind = "dict" /\ k \in DOMAIN LOGIN4_FILE.data
           /\ LOGIN4_FILE.data[k].v # Resolved(t).login4

(***************************************************************************)
(* C9: a worker with an empty real suffix                                  *)
(***************************************************************************)
\* C9: whatever the login-override map holds, a worker whose phone text ends
\* in no 4 digits is never matched: no lookup result is about such a worker
C9_NoResultForEmptyReal ==
  \A t \in Threads :
    ResultOf(t) => last4_from_phone(th[t].out.ev.rider.phoneNumber) # <<>>

(***************************************************************************)
(* C10: resolveJoinDate                                                    *)
(***************************************************************************)
\* C10: the join date and the source of every lookup result follow the
\* precedence: the stored override under normalize(name)|loginSuffix when it
\* parses as an ISO date (source override), else the first 10 characters of
\* the worker's createdDate (source createdDate), else today (source
\* fallback)
C10_JoinDatePrecedence ==
  \A t \in Threads :
    ResultOf(t) =>
      LET ev   == th[t].out.ev
          key  == Key(norm_name(ev.rider.name), ev.login4)
          data == load_overrides(OVERRIDE_FILE)
          ov   == IF key \in DOMAIN data /\ data[key].t = "str"
                    THEN safe_date_parse(data[key].v) ELSE None
          cr   == ev.rider.createdDate
      IN  IF ov # None
            THEN ev.eff_join = ov /\ ev.join_src = "override"
          ELSE IF Len(cr) >= 10
            THEN ev.eff_join = fromisoformat(SubSeq(cr, 1, 10)) /\ ev.join_src = "createdDate"
          ELSE ev.eff_join = today /\ ev.join_src = "fallback"

\* a lookup result whose join date is the stored override although the
\* worker has a platform createdDate naming another day
C10_JoinDatePrecedence_witness ==
  \E t \in Threads :
    /\ ResultOf(t) /\ th[t].out.ev.join_src = "override"
    /\ Len(th[t].out.ev.rider.createdDate) >= 10
    /\ th[t].out.ev.eff_join # fromisoformat(SubSeq(th[t].out.ev.rider.createdDate, 1, 10))

(***************************************************************************)
(* C11: resolveJoinDate without a usable date                              *)
(***************************************************************************)
\* C11: a lookup that finds its worker, with no valid join-date override
\* stored for it (no entry, or a text that is no date) and a createdDate
\* that is absent or whose first 10 characters are no ISO date, is served a
\* result whose join date is today with source fallback; nothing is raised
C11_JoinDateFallback ==
  \A t \in Threads :
    LookupDone(t) =>
      \A i \in Matching(th[t].args.name, strip(th[t].args.login4)) :
        LET w    == riders_cache.data[i]
            key  == Key(norm_name(w.name), strip(th[t].args.login4))
            data == load_overrides(OVERRIDE_FILE)
            cr   == w.createdDate
        IN  ( /\ Cardinality(Matching(th[t].args.name, strip(th[t].args.login4))) = 1
              /\ key \in DOMAIN data => data[key].t = "str" /\ safe_date_parse(data[key].v) = None
              /\ ~(Len(cr) >= 10 /\ IsIsoDate(SubSeq(cr, 1, 10))) )
            => /\ th[t].out.kind = "Result"
               /\ th[t].out.ev.eff_join = today
               /\ th[t].out.ev.join_src = "fallback"

(***************************************************************************)
(* C12-C14: the evaluation windows                                         *)
(***************************************************************************)
\* the evaluations the finished requests carry: the one of a lookup result
\* and the one of every dashboard row
Evaluations ==
  {th[t].out.ev : t \in {u \in Threads : ResultOf(u)}}
    \cup UNION {{th[t].out.rows[i].ev : i \in 1..Len(th[t].out.rows)} :
                  t \in {u \in Threads : th[u].pc = "done" /\ th[u].kind = "dashboard"}}

\* the calendar month before and after the month of d, as <<year, month>>
MonthBefore(d) == IF d[2] = 1 THEN <<d[1] - 1, 12>> ELSE <<d[1], d[2] - 1>>

MonthAfter(d) == IF d[2] = 12 THEN <<d[1] + 1, 1>> ELSE <<d[1], d[2] + 1>>

\* C12: in every evaluation the current window starts at the join day
\* clamped into today's month when today has reached that anchor and at the
\* join day clamped into the month before otherwise, and ends (inclusive) at
\* the join day clamped into the month after the start's month; join
\* 2024-03-24 on 2025-01-10 gives 2024-12-24 .. 2025-01-24
C12_CurrentPeriod ==
  \A ev \in Evaluations :
    LET join_day == ev.eff_join[3]
        anchor   == clamp_day(today[1], today[2], join_day)
        start    == IF DateLE(anchor, today) THEN anchor
                    ELSE clamp_day(MonthBefore(today)[1], MonthBefore(today)[2], join_day)
    IN  /\ ev.cur_start = start
        /\ ev.cur_end_incl = clamp_day(MonthAfter(start)[1], MonthAfter(start)[2], join_day)
        /\ (ev.eff_join = <<2024, 3, 24>> /\ today = <<2025, 1, 10>>)
             => ev.cur_start = <<2024, 12, 24>> /\ ev.cur_end_incl = <<2025, 1, 24>>

\* an evaluation made before this month's anchor, whose window starts in the
\* month before on a day the join day had to be clamped to
C12_CurrentPeriod_witness ==
  \E ev \in Evaluations :
    /\ DateLT(today, clamp_day(today[1], today[2], ev.eff_join[3]))
    /\ ev.cur_start[3] < ev.eff_join[3]
    /\ <<ev.cur_start[1], ev.cur_start[2]>> = MonthBefore(today)

\* C13: in every evaluation of a lookup and of a dashboard the previous
\* window ends (inclusive) the day before the current start and starts one
\* calendar month before the current start, on the day of the current start
\* clamped to the length of that month
C13_PreviousPeriod ==
  \A ev \in Evaluations :
    /\ PlusOneDay(ev.prev_end_incl) = ev.cur_start
    /\ ev.prev_start = clamp_day(MonthBefore(ev.cur_start)[1], MonthBefore(ev.cur_start)[2],
                                 ev.cur_start[3])

\* an evaluation whose current window starts on a day the month before does
\* not have: the previous start is clamped
C13_PreviousPeriod_witness ==
  \E ev \in Evaluations :
    /\ ev.cur_start[3] > DaysInMonth(MonthBefore(ev.cur_start)[1], MonthBefore(ev.cur_start)[2])
    /\ ev.prev_start[3] < ev.cur_start[3]

\* the two dates a completion-cache key names
KeyFrom(k) == fromisoformat(SubSeq(k, 1, 10))

KeyTo(k) == fromisoformat(SubSeq(k, 12, 21))

\* a range that is not inverted and ends before today
RangeOk(from_d, to_d) == DateLE(from_d, to_d) /\ DateLT(to_d, today)

\* C14: in every evaluation both API ranges are from = start and
\* to = min(endInclusive, today - 1 day), with from collapsed to to when
\* start > to, so from <= to < today; and every completion request under
\* way, every range fetch_status_complete_map_cached was called with and
\* every key of the completion cache has from <= to < today, whatever range
\* the caller passed
C14_ApiRange ==
  /\ \A ev \in Evaluations :
       LET cur_to  == DateMin(ev.cur_end_incl, MinusOneDay(today))
           prev_to == DateMin(ev.prev_end_incl, MinusOneDay(today))
       IN  /\ ev.cur_to = cur_to
           /\ ev.cur_from = IF DateLT(cur_to, ev.cur_start) THEN cur_to ELSE ev.cur_start
           /\ ev.prev_to = prev_to
           /\ ev.prev_from = IF DateLT(prev_to, ev.prev_start) THEN prev_to ELSE ev.prev_start
           /\ RangeOk(ev.cur_from, ev.cur_to) /\ RangeOk(ev.prev_from, ev.prev_to)
  /\ \A t \in Threads :
       (th[t].pc = "status_page" \/ (th[t].pc = "done" /\ th[t].kind = "status_range"))
         => /\ RangeOk(th[t].from_d, th[t].to_d)
            /\ KeyFrom(th[t].key_cache) = th[t].from_d
            /\ KeyTo(th[t].key_cache) = th[t].to_d
  /\ \A k \in DOMAIN status_cache : RangeOk(KeyFrom(k), KeyTo(k))

\* a lookup served on the first day of its current window: the window's
\* range collapses to yesterday alone, and that range was fetched
C14_ApiRange_witness ==
  \E t \in Threads :
    /\ ResultOf(t)
    /\ th[t].out.ev.cur_start = today
    /\ th[t].out.ev.cur_from = MinusOneDay(today)
    /\ th[t].out.ev.cur_to = MinusOneDay(today)
    /\ key_cache_of(MinusOneDay(today), MinusOneDay(today)) \in DOMAIN status_cache

(***************************************************************************)
(* C15: clampDay                                                           *)
(***************************************************************************)
\* the length of month m of year y by the calendar's table
CalendarDays(y, m) ==
  IF m = 2 /\ ((y % 4 = 0 /\ y % 100 # 0) \/ y % 400 = 0) THEN 29
  ELSE <<31, 28, 31, 30, 31, 30, 31, 31, 30, 31, 30, 31>>[m]

ClampDone(t) == th[t].pc = "done" /\ th[t].kind = "clamp_day"

\* C15: for every year, month 1..12 and target day 1..31, clamp_day returns
\* a date of that year and month, on a day the month has: the target day
\* when the month has it, the month's last day otherwise
C15_ClampDay ==
  \A t \in Threads :
    ClampDone(t) =>
      LET year == th[t].from_d[1]
          month == th[t].from_d[2]
          target_day == th[t].from_d[3]
          d == th[t].to_d
      IN  /\ d[1] = year /\ d[2] = month
          /\ d[3] \in 1..CalendarDays(year, month)
          /\ d[3] = IF target_day <= CalendarDays(year, month) THEN target_day
                    ELSE CalendarDays(year, month)

\* day 31 asked for in February of a leap year: the 29th is returned
C15_ClampDay_witness ==
  \E t \in Threads :
    /\ ClampDone(t)
    /\ th[t].from_d = <<2024, 2, 31>>
    /\ th[t].to_d = <<2024, 2, 29>>

(***************************************************************************)
(* C16, C17: tierOf and nextTierTarget                                     *)
(***************************************************************************)
\* the tiers from the lowest to the top one, and the threshold of each
Tiers == <<"unranked", "R5", "R4", "R3", "R2", "R1">>

TierMin == <<0, 480, 720, 960, 1200, 1440>>

TierRank(g) == CHOOSE i \in 1..Len(Tiers) : Tiers[i] = g

\* the position of the highest threshold not exceeding count
TierAt(count) == CHOOSE i \in 1..Len(TierMin) :
                   /\ TierMin[i] <= count
                   /\ \A j \in 1..Len(TierMin) : TierMin[j] <= count => j <= i

GradeDone(t) == th[t].pc = "done" /\ th[t].kind = "grade"

\* C16: the grade of every count 0, 1, 2, .. is the tier of the highest
\* threshold of (0, 480, 720, 960, 1200, 1440) not exceeding the count: 479
\* is unranked, 480 the first ranked tier, 1440 the top tier; and no smaller
\* count has a higher tier
C16_TierOf ==
  \A t \in Threads :
    GradeDone(t) =>
      LET count == th[t].out.cur_completed
          g     == th[t].out.planned_grade
      IN  /\ g = Tiers[TierAt(count)]
          /\ count = 479 => g = "unranked"
          /\ count = 480 => g = "R5"
          /\ count = 1440 => g = "R1"
          /\ \A c \in 0..count : TierRank(grade_from_total(c)) <= TierRank(g)

\* the count 480 graded as the first ranked tier
C16_TierOf_witness ==
  \E t \in Threads :
    GradeDone(t) /\ th[t].out.cur_completed = 480 /\ th[t].out.planned_grade = "R5"

\* C17: the next target of a count is (None, None) exactly when its grade is
\* the top tier; otherwise it is the tier right above the grade with that
\* tier's threshold minus the count, floored at zero: at least 1, and the
\* grade of count + remaining is the tier returned
C17_NextTierTarget ==
  \A t \in Threads :
    GradeDone(t) =>
      LET count == th[t].out.cur_completed
          rank  == TierAt(count)
          nxt   == th[t].out.nxt
      IN  /\ nxt = <<"None", -1>> <=> rank = Len(Tiers)
          /\ rank < Len(Tiers) =>
               /\ nxt[1] = Tiers[rank + 1]
               /\ nxt[2] = Max(0, TierMin[rank + 1] - count)
               /\ nxt[2] >= 1
               /\ grade_from_total(count + nxt[2]) = nxt[1]

\* one count below the top tier: the top tier is 1 away
C17_NextTierTarget_witness ==
  \E t \in Threads :
    GradeDone(t) /\ th[t].out.cur_completed = 1439 /\ th[t].out.nxt = <<"R1", 1>>

(***************************************************************************)
(* C18: the override edits are idempotent                                  *)
(***************************************************************************)
AdminKinds == {"admin_set_join", "admin_clear_join", "admin_set_login4", "admin_clear_login4"}

\* the two override maps as the program reads them
LoadedMaps(join_file, login4_file) ==
  <<load_overrides(join_file), load_login4_map(login4_file)>>

\* the map thread t holds between its load and its save is the stored one
FreshLoad(t) ==
  \/ th[t].pc = "idle"
  \/ th[t].kind \in {"admin_set_join", "admin_clear_join"}
       /\ th[t].data = load_overrides(OVERRIDE_FILE)
  \/ th[t].kind \in {"admin_set_login4", "admin_clear_login4"}
       /\ th[t].data = load_login4_map(LOGIN4_FILE)

\* the edit thread t is about to finish clears a key its map does not hold
ClearsAbsent(t) ==
  \/ /\ th'[t].kind = "admin_clear_join"
     /\ strip(th'[t].args.key) \notin DOMAIN load_overrides(OVERRIDE_FILE)
  \/ /\ th'[t].kind = "admin_clear_login4"
     /\ Key(th'[t].args.name_norm, th'[t].args.real4) \notin DOMAIN load_login4_map(LOGIN4_FILE)

\* C18: an admin edit served right after the same edit with the same
\* arguments leaves both override files as the first one left them, and a
\* clear of a key that is not stored leaves the contents of both maps as
\* they were
C18_Idempotent ==
  [][\A t \in Threads :
       ( /\ th[t].pc # "done" /\ th'[t].pc = "done"
         /\ th'[t].kind \in AdminKinds /\ th'[t].args.is_admin
         /\ FreshLoad(t) )
       => /\ (\E u \in Threads \ {t} :
                /\ th[u].pc = "done" /\ th[u].kind = th'[t].kind
                /\ th[u].args = th'[t].args)
               => <<OVERRIDE_FILE', LOGIN4_FILE'>> = <<OVERRIDE_FILE, LOGIN4_FILE>>
          /\ ClearsAbsent(t)
               => LoadedMaps(OVERRIDE_FILE', LOGIN4_FILE')
                    = LoadedMaps(OVERRIDE_FILE, LOGIN4_FILE)
    ]_vars

\* both threads have served the same set of a login suffix, and the map
\* holds that one entry
C18_Idempotent_witness ==
  /\ \A t \in Threads :
       /\ th[t].pc = "done" /\ th[t].kind = "admin_set_login4"
       /\ th[t].args.is_admin
       /\ th[t].args.name_norm = S_kim /\ th[t].args.real4 = S_5678
       /\ th[t].args.login4 = S_1234
  /\ load_login4_map(LOGIN4_FILE) = (K_kim_5678 :> S_1234)

(***************************************************************************)
(* C19: unusable override files                                            *)
(***************************************************************************)
\* an override file that is absent, unreadable, or an object none of whose
\* values is a string
Unusable(file) ==
  \/ file.kind \in {"missing", "corrupt"}
  \/ \A k \in DOMAIN file.data : file.data[k].t # "str"

\* every createdDate of the cached roster is absent, short or a date
RosterDatesUsable ==
  \A i \in 1..Len(riders_cache.data) :
    \/ Len(riders_cache.data[i].createdDate) < 10
    \/ IsIsoDate(SubSeq(riders_cache.data[i].createdDate, 1, 10))

\* C19: with both override files unusable, a lookup and a dashboard end
\* without an error, and every evaluation they carry has the defaults: the
\* login suffix is the real suffix (source real) and the join date is the
\* platform's or today, never an override
C19_UnusableStoreIsEmpty ==
  \A t \in Threads :
    ( /\ th[t].pc = "done" /\ th[t].kind \in {"check", "dashboard"}
      /\ Unusable(OVERRIDE_FILE) /\ Unusable(LOGIN4_FILE)
      /\ RosterDatesUsable )
    => /\ th[t].out.kind # "Error"
       /\ \A ev \in Evaluations :
            /\ ev.login_src = "real" /\ ev.login4 = ev.real4
            /\ ev.join_src \in {"createdDate", "fallback"}

(***************************************************************************)
(* C20: a refetch replaces a cache entry in one step                       *)
(***************************************************************************)
\* C20: whenever a request puts its refetch into the roster cache while
\* another request is about to read a roster entry that is there and live,
\* the entry the reader finds is whole: the old timestamp with the old
\* payload, or the refetch's timestamp with the refetch's payload
C20_AtomicReplace ==
  [][\A u \in Threads :
       ( /\ th[u].pc = "riders_call" /\ th'[u].pc = "riders_store"
         /\ riders_cache.has
         /\ \E t \in Threads \ {u} : th[t].pc = "riders_read"
         /\ now - riders_cache'.ts <= RIDERS_CACHE_TTL )
       => \/ riders_cache'.ts = riders_cache.ts /\ riders_cache'.data = riders_cache.data
          \/ riders_cache'.ts = th'[u].now_l /\ riders_cache'.data = th'[u].items
    ]_vars

(***************************************************************************)
(* C21: cache reads                                                        *)
(***************************************************************************)
\* what fetch_status_complete_map_cached handed back to the caller whose
\* locals are l
Returned(l) ==
  IF l.caller = "check"
    THEN (IF l.pc = "check_finish" THEN l.cmap_prev ELSE l.cmap_cur)
    ELSE l.cmaps[Len(l.cmaps)]

\* C21: a read of the roster cache that finds an entry at most 60 s old, and
\* a read of the completion cache that finds an entry at most 30 s old under
\* its window's key, returns the stored payload with no external call and no
\* cache change; any other read starts a refetch; and the caches change only
\* when a refetch ends: the roster entry becomes the refetch's timestamp and
\* payload, the completion entry of the refetch's key becomes its timestamp
\* and payload while every other entry stays as it was
C21_CacheRead ==
  [][\A t \in Threads :
       /\ (th[t].pc = "riders_read" /\ th'[t] # th[t]) =>
            /\ UNCHANGED <<riders_cache, status_cache>>
            /\ th'[t].h.ext = th[t].h.ext
            /\ IF riders_cache.has /\ now - riders_cache.ts <= 60
                 THEN /\ th'[t].pc \in {"check_match", "dash_build"}
                      /\ th'[t].riders = riders_cache.data
                 ELSE th'[t].pc = "riders_call"
       /\ (th[t].pc = "status_read" /\ th'[t] # th[t]) =>
            LET key == key_cache_of(th[t].from_d, th[t].to_d)
            IN  /\ UNCHANGED <<riders_cache, status_cache>>
                /\ th'[t].h.ext = th[t].h.ext
                /\ IF key \in DOMAIN status_cache /\ now - status_cache[key].ts <= 30
                     THEN /\ th'[t].pc # "status_page"
                          /\ Returned(th'[t]) = status_cache[key].data
                     ELSE th'[t].pc = "status_page" /\ th'[t].key_cache = key
       /\ (th[t].pc = "riders_store" /\ th'[t] # th[t]) =>
            /\ riders_cache' = [ts |-> th[t].now_l, has |-> TRUE, data |-> th'[t].riders]
            /\ UNCHANGED status_cache
       /\ (th[t].pc = "status_page" /\ th'[t] # th[t] /\ status_cache' # status_cache) =>
            /\ DOMAIN status_cache' = DOMAIN status_cache \cup {th[t].key_cache}
            /\ status_cache'[th[t].key_cache] = [ts |-> th[t].s_now, data |-> Returned(th'[t])]
            /\ \A k \in DOMAIN status_cache \ {th[t].key_cache} :
                 status_cache'[k] = status_cache[k]
            /\ UNCHANGED riders_cache
       /\ ( \/ riders_cache' # riders_cache
            \/ status_cache' # status_cache )
            => \E u \in Threads :
                 th[u].pc \in {"riders_call", "riders_store", "status_page"} /\ th'[u] # th[u]
    ]_vars

\* a lookup served wholly from the caches, with a second completion window
\* in the cache besides the two it read
C21_CacheRead_witness ==
  \E t \in Threads :
    /\ LookupServed(t)
    /\ th[t].h.ext = 0
    /\ Len(th[t].h.reads) = 2
    /\ \A i \in 1..2 : th[t].h.reads[i].live
    /\ Cardinality(DOMAIN status_cache) >= 2

(***************************************************************************)
(* C22: the counts are read under the real key                             *)
(***************************************************************************)
\* the rows of the finished dashboards
DashboardRows ==
  UNION {{th[t].out.rows[i] : i \in 1..Len(th[t].out.rows)} :
           t \in {u \in Threads : th[u].pc = "done" /\ th[u].kind = "dashboard"}}

\* the results of the finished lookups
LookupResults == {th[t].out : t \in {u \in Threads : ResultOf(u)}}

\* the real key normalize(name)|realSuffix of worker w
RealKey(w) == Key(norm_name(w.name), last4_from_phone(w.phoneNumber))

\* the count the completion map of the range from_d .. to_d holds under
\* key, 0 when it holds none
CountIn(from_d, to_d, key) ==
  LET m == status_cache[key_cache_of(from_d, to_d)].data
  IN  IF key \in DOMAIN m THEN m[key] ELSE 0

\* C22: the counts of every lookup result and of every dashboard row are
\* those the completion maps of the worker's current and previous range
\* hold under normalize(name)|realSuffix, 0 where the map has no such key
\* (for the previous count of a row: when no other row has the same real
\* key)
C22_CountsUnderRealKey ==
  /\ \A r \in LookupResults :
       /\ r.cur_completed = CountIn(r.ev.cur_from, r.ev.cur_to, RealKey(r.ev.rider))
       /\ r.prev_completed = CountIn(r.ev.prev_from, r.ev.prev_to, RealKey(r.ev.rider))
  /\ \A r \in DashboardRows :
       /\ r.cur_completed = CountIn(r.ev.cur_from, r.ev.cur_to, RealKey(r.ev.rider))
       /\ (\A q \in DashboardRows : RealKey(q.ev.rider) = RealKey(r.ev.rider) => q = r)
            => r.prev_completed = CountIn(r.ev.prev_from, r.ev.prev_to, RealKey(r.ev.rider))

\* a lookup result of a worker with a login override, whose current map
\* holds one count under the real key and another under the login key
C22_CountsUnderRealKey_witness ==
  \E r \in LookupResults :
    /\ r.ev.login_src = "override"
    /\ r.cur_completed = 1450
    /\ CountIn(r.ev.cur_from, r.ev.cur_to, Key(norm_name(r.ev.rider.name), r.ev.login4)) = 7

(***************************************************************************)
(* C23: the tiers of a result                                              *)
(***************************************************************************)
\* C23: in every lookup result and every dashboard row the current tier is
\* the tier of the previous window's count, the projected tier the tier of
\* the current window's count, and the next-tier projection the tier right
\* above the projected one with its threshold minus the current window's
\* count (nothing at the top tier)
C23_TiersOfResult ==
  \A r \in LookupResults \cup DashboardRows :
    /\ r.current_grade = Tiers[TierAt(r.prev_completed)]
    /\ r.planned_grade = Tiers[TierAt(r.cur_completed)]
    /\ r.nxt = IF TierAt(r.cur_completed) = Len(Tiers) THEN <<"None", -1>>
               ELSE <<Tiers[TierAt(r.cur_completed) + 1],
                      TierMin[TierAt(r.cur_completed) + 1] - r.cur_completed>>

\* a dashboard row whose two counts lie in different tiers
C23_TiersOfResult_witness ==
  \E r \in DashboardRows :
    /\ r.cur_completed = 500 /\ r.prev_completed = 100
    /\ r.planned_grade = "R5" /\ r.current_grade = "unranked"
    /\ r.nxt = <<"R4", 220>>

(***************************************************************************)
(* C24: the label of the join date's source                                *)
(***************************************************************************)
\* C24: the label a result or a row shows for its join date tells the three
\* sources apart: an administrator's override is labelled as such, the
\* platform's createdDate as the platform's join date, and a date that fell
\* back to today is never labelled as the platform's join date
C24_ProvenanceShown ==
  \A r \in LookupResults \cup DashboardRows :
    /\ r.ev.join_src = "override" => r.join_note = "admin"
    /\ r.ev.join_src = "createdDate" => r.join_note = "platform"
    /\ r.ev.join_src = "fallback" => r.join_note \notin {"admin", "platform"}

(***************************************************************************)
(* C25: what a pagination run accumulates                                  *)
(***************************************************************************)
\* the completed counts of the rows of one page under one key, added up
RECURSIVE SumRows(_, _)
SumRows(rows, k) ==
  IF rows = <<>> THEN 0
  ELSE (IF last4_from_phone(Head(rows).phoneNumber) # <<>>
           /\ Key(norm_name(Head(rows).name), last4_from_phone(Head(rows).phoneNumber)) = k
          THEN Head(rows).complete ELSE 0)
       + SumRows(Tail(rows), k)

\* the keys of the rows of one page; rows with no real suffix have none
RowKeys(rows) ==
  {Key(norm_name(rows[i].name), last4_from_phone(rows[i].phoneNumber)) :
     i \in {j \in 1..Len(rows) : last4_from_phone(rows[j].phoneNumber) # <<>>}}

\* C25: a pagination run asks for pages 0, 1, 2, ... until the first empty
\* page, and every page it reads adds, for every key normalize(name)|real
\* suffix, the completed counts of the page's rows with that key to what
\* the run has accumulated so far (a key met on two pages holds the sum);
\* the first empty page ends the run with the accumulated map as its result
C25_Accumulates ==
  [][\A t \in Threads :
       th[t].pc = "status_page" /\ th'[t] # th[t] =>
         /\ th'[t].pc = "status_page" =>
              /\ th'[t].page = th[t].page + 1
              /\ \E resp \in StatusResponses[th[t].page] :
                   /\ resp.rows # <<>>
                   /\ DOMAIN th'[t].complete = DOMAIN th[t].complete \cup RowKeys(resp.rows)
                   /\ \A k \in DOMAIN th'[t].complete :
                        th'[t].complete[k] =
                          MapGet(th[t].complete, k, 0) + SumRows(resp.rows, k)
         /\ status_cache' # status_cache
              => status_cache'[th[t].key_cache].data = th[t].complete]_vars

(***************************************************************************)
(* C26: a pagination run ends                                              *)
(***************************************************************************)
\* C26: a pagination run ends even when no page is ever empty: it starts
\* at page 0, every call it makes is for a page below 600 and is followed
\* by the page one above, and once 600 pages are read the run makes no
\* further call and leaves the loop; so every run that has started is over
\* some time later
C26_PaginationEnds ==
  /\ [][\A t \in Threads :
          /\ th[t].pc # "status_page" /\ th'[t].pc = "status_page" => th'[t].page = 0
          /\ th[t].pc = "status_page" /\ th'[t] # th[t] =>
               IF th'[t].h.ext # th[t].h.ext
                 THEN /\ th'[t].h.ext = th[t].h.ext + 1
                      /\ th[t].page < 600
                      /\ th'[t].pc = "status_page" => th'[t].page = th[t].page + 1
                 ELSE th[t].page = 600 /\ th'[t].pc # "status_page"]_vars
  /\ \A t \in Threads : th[t].pc = "status_page" ~> th[t].pc # "status_page"

\* the run has read 600 pages that all held rows and makes no further call
C26_PaginationEnds_witness ==
  \E t \in Threads :
    /\ th[t].pc = "status_page" /\ th[t].page = 600
    /\ th[t].complete # EmptyMap

(***************************************************************************)
(* C27: one fetch per distinct range of a dashboard                        *)
(***************************************************************************)
\* the cache keys of the current and previous API ranges of the rows
RangeKeys(rows) ==
  {key_cache_of(rows[i].cur_from, rows[i].cur_to) : i \in 1..Len(rows)}
    \cup {key_cache_of(rows[i].prev_from, rows[i].prev_to) : i \in 1..Len(rows)}

\* the dashboard requests being served or just answered
Dashboards == {t \in Threads : th[t].kind = "dashboard" /\ th[t].pc # "idle"}

\* the evaluations behind the rows of an answered dashboard
RowEvals(t) == [i \in 1..Len(th[t].out.rows) |-> th[t].out.rows[i].ev]

\* C27: one dashboard request starts at most one pagination run per
\* distinct (apiFrom, apiTo) pair among the current and previous ranges of
\* the workers it lists, however many workers share a range, also when
\* the previous range of one worker is the current range of another: no
\* range is fetched twice
C27_OneFetchPerRange ==
  \A t \in Dashboards :
    \A i, j \in 1..Len(th[t].h.runs) :
      th[t].h.runs[i][1] = th[t].h.runs[j][1] => i = j

\* C27, as the code has it: every run of a dashboard request is for a
\* range of a listed worker, and a range is fetched a second time only
\* through the walk of the current ranges after the walk of the previous
\* ones, when the entry of the first run has expired by then (the two runs
\* are more than STATUS_CACHE_TTL seconds apart)
C27_OneFetchPerRangeAndTtl ==
  \A t \in Dashboards :
    /\ \A i, j \in 1..Len(th[t].h.runs) :
         i < j /\ th[t].h.runs[i][1] = th[t].h.runs[j][1]
           => /\ th[t].h.runs[j][2] - th[t].h.runs[i][2] > 30
              /\ \A k \in 1..Len(th[t].h.runs) :
                   th[t].h.runs[k][1] = th[t].h.runs[i][1] => k \in {i, j}
    /\ th[t].pc = "done" /\ th[t].out.kind = "Rows" =>
         {th[t].h.runs[i][1] : i \in 1..Len(th[t].h.runs)} \subseteq RangeKeys(RowEvals(t))

\* a dashboard served from an empty completion cache lists two workers,
\* the previous range of one being the current range of the other, and has
\* made one run for each of the three distinct ranges
C27_OneFetchPerRangeAndTtl_witness ==
  \E t \in Dashboards :
    /\ th[t].pc = "done" /\ th[t].out.kind = "Rows"
    /\ Len(th[t].out.rows) = 2
    /\ \E i, j \in 1..2 :
         /\ th[t].out.rows[i].ev.prev_from = th[t].out.rows[j].ev.cur_from
         /\ th[t].out.rows[i].ev.prev_to = th[t].out.rows[j].ev.cur_to
    /\ Cardinality(RangeKeys(RowEvals(t))) = 3
    /\ Len(th[t].h.runs) = 3
    /\ \A i \in 1..Len(th[t].h.reads) : th[t].h.reads[i].ts = -1 \/ th[t].h.reads[i].live

(***************************************************************************)
(* C28: the dashboard against the lookup                                   *)
(***************************************************************************)
\* C28: the row the dashboard shows for a worker is what the pipeline of
\* the lookup gives for that worker from the same files, completion data
\* and day: the same periods and API ranges, the counts the completion
\* maps of the worker's own two ranges hold under the worker's real key,
\* and the tiers and the next-tier projection of those counts, also when
\* another listed worker has the same real key and other ranges
C28_DashboardAsLookup ==
  \A r \in DashboardRows :
    /\ r.ev = check_evaluate(r.ev.rider, LOGIN4_FILE, OVERRIDE_FILE, today)
    /\ r.cur_completed = CountIn(r.ev.cur_from, r.ev.cur_to, RealKey(r.ev.rider))
    /\ r.prev_completed = CountIn(r.ev.prev_from, r.ev.prev_to, RealKey(r.ev.rider))
    /\ r.current_grade = grade_from_total(r.prev_completed)
    /\ r.planned_grade = grade_from_total(r.cur_completed)
    /\ r.nxt = next_grade_target(r.cur_completed)

C30_WindowsConsistent ==
  \A ev \in Evaluations :
    ev.prev_start = current_period(ev.eff_join, MinusOneDay(ev.cur_start))[1]

(***************************************************************************)
(* C31: a join override belongs to a login key                             *)
(***************************************************************************)
\* the join date stored under key in join_overrides.json, None when there
\* is no entry or its value is no date
StoredJoin(key) ==
  IF key \in DOMAIN load_overrides(OVERRIDE_FILE)
       /\ load_overrides(OVERRIDE_FILE)[key].t = "str"
    THEN safe_date_parse(load_overrides(OVERRIDE_FILE)[key].v)
    ELSE None

\* the login override stored for the worker w, <<>> when there is none
StoredLogin(w) ==
  IF RealKey(w) \in DOMAIN load_login4_map(LOGIN4_FILE)
    THEN load_login4_map(LOGIN4_FILE)[RealKey(w)]
    ELSE <<>>

\* C31: after any admin edits, the join date of a looked-up worker is a
\* stored join override exactly when one is stored under normalize(name)|
\* the worker's current login suffix; an override stored under the key of
\* the real suffix no longer applies once a login override gives the worker
\* another suffix, and the one stored under the new key applies instead
C31_JoinOverrideByLoginKey ==
  \A t \in Threads :
    ResultOf(t) =>
      LET ev == th[t].out.ev
      IN  /\ ev.login4 = IF fullmatch_d4(strip(StoredLogin(ev.rider)))
                           THEN strip(StoredLogin(ev.rider))
                           ELSE last4_from_phone(ev.rider.phoneNumber)
          /\ ev.join_src = "override"
               <=> StoredJoin(Key(norm_name(ev.rider.name), ev.login4)) # None
          /\ ev.join_src = "override"
               => ev.eff_join = StoredJoin(Key(norm_name(ev.rider.name), ev.login4))

\* a worker found under a login override: the join override stored under
\* the key of the real suffix is still in the file and does not apply
C31_JoinOverrideByLoginKey_witness ==
  \E t \in Threads :
    /\ ResultOf(t)
    /\ th[t].out.ev.login_src = "override"
    /\ th[t].out.ev.login4 # th[t].out.ev.real4
    /\ StoredJoin(RealKey(th[t].out.ev.rider)) # None
    /\ th[t].out.ev.join_src = "createdDate"

(***************************************************************************)
(* C32: what an admin request may write                                    *)
(***************************************************************************)
\* exactly four digits
FourDigits(s) == Len(s) = 4 /\ \A i \in 1..4 : s[i] \in Digit

\* the inputs of the admin request l validate as they were sent
ValidatesExact(l) ==
  CASE l.kind = "admin_set_join" ->
         l.args.key # <<>> /\ safe_date_parse(l.args.join_date) # None
    [] l.kind = "admin_clear_join" -> l.args.key # <<>>
    [] l.kind = "admin_set_login4" ->
         /\ l.args.form[1] # <<>>
         /\ FourDigits(l.args.form[2]) /\ FourDigits(l.args.form[3])
    [] l.kind = "admin_clear_login4" ->
         l.args.form[1] # <<>> /\ FourDigits(l.args.form[2])
    [] OTHER -> FALSE

\* the inputs of the admin request l validate once the whitespace around
\* them is removed; a clear of a join override needs its key in the file
Validates(l) ==
  CASE l.kind = "admin_set_join" ->
         strip(l.args.key) # <<>> /\ safe_date_parse(l.args.join_date) # None
    [] l.kind = "admin_clear_join" -> strip(l.args.key) \in DOMAIN l.data
    [] l.kind = "admin_set_login4" ->
         /\ strip(l.args.form[1]) # <<>>
         /\ FourDigits(strip(l.args.form[2])) /\ FourDigits(strip(l.args.form[3]))
    [] l.kind = "admin_clear_login4" ->
         strip(l.args.form[1]) # <<>> /\ FourDigits(strip(l.args.form[2]))
    [] OTHER -> FALSE

\* file holds the map the request l had loaded, but for the entry of key:
\* that one is gone, or holds a string that is what the request may store
WroteJoin(l, file, key) ==
  /\ file.kind = "dict"
  /\ DOMAIN file.data \ {key} = DOMAIN l.data \ {key}
  /\ \A k \in DOMAIN file.data \ {key} : file.data[k] = l.data[k]
  /\ IF l.kind = "admin_set_join"
       THEN /\ key \in DOMAIN file.data
            /\ file.data[key].t = "str" /\ IsIsoDate(file.data[key].v)
       ELSE key \notin DOMAIN file.data

WroteLogin4(l, file, key) ==
  /\ file.kind = "dict"
  /\ DOMAIN file.data \ {key} = DOMAIN l.data \ {key}
  /\ \A k \in DOMAIN file.data \ {key} : file.data[k] = Str(l.data[k])
  /\ IF l.kind = "admin_set_login4"
       THEN /\ key \in DOMAIN file.data
            /\ file.data[key].t = "str" /\ FourDigits(file.data[key].v)
       ELSE key \notin DOMAIN file.data

\* the step is the save of the admin request of thread t
SavedBy(t) ==
  /\ th'[t] # th[t]
  /\ th[t].args.is_admin
  /\ IF th[t].kind \in {"admin_set_join", "admin_clear_join"}
       THEN /\ LOGIN4_FILE' = LOGIN4_FILE
            /\ WroteJoin(th[t], OVERRIDE_FILE', strip(th[t].args.key))
       ELSE /\ OVERRIDE_FILE' = OVERRIDE_FILE
            /\ WroteLogin4(th[t], LOGIN4_FILE',
                           Key(strip(th[t].args.form[1]), strip(th[t].args.form[2])))

\* C32: a step changes an override file only as the save of an admin
\* request that passed the gate and whose inputs, as they were sent,
\* validate (a name or key that is not empty, suffixes of exactly four
\* digits, a join date that parses); the value it stores is four digits,
\* respectively an ISO date, and the other entries are the loaded ones
C32_WritesGatedExact ==
  [][(OVERRIDE_FILE' # OVERRIDE_FILE \/ LOGIN4_FILE' # LOGIN4_FILE)
       => \E t \in Threads : SavedBy(t) /\ ValidatesExact(th[t])]_vars

\* C32, as the code has it: the inputs are validated with the whitespace
\* around them removed, and a clear of a join override writes whenever its
\* key is in the file
C32_WritesGated ==
  [][(OVERRIDE_FILE' # OVERRIDE_FILE \/ LOGIN4_FILE' # LOGIN4_FILE)
       => \E t \in Threads : SavedBy(t) /\ Validates(th[t])]_vars

\* an admin request that sent the login suffix with a blank around it has
\* stored the four digits
C32_WritesGated_witness ==
  \E t \in Threads :
    /\ th[t].pc = "done" /\ th[t].kind = "admin_set_login4" /\ th[t].args.is_admin
    /\ th[t].args.form[3] # strip(th[t].args.form[3])
    /\ LOGIN4_FILE.kind = "dict"
    /\ Key(th[t].args.name_norm, th[t].args.real4) \in DOMAIN LOGIN4_FILE.data
    /\ LOGIN4_FILE.data[Key(th[t].args.name_norm, th[t].args.real4)]
         = Str(strip(th[t].args.form[3]))

(***************************************************************************)
(* C33: one login suffix per name                                          *)
(***************************************************************************)
\* C33: whatever login overrides the admin requests have set or cleared,
\* no two workers of the roster with the same normalized name and
\* different real suffixes resolve to the same login suffix, so that no
\* lookup of a worker becomes Ambiguous through an admin edit
C33_LoginSuffixUnique ==
  \A w1, w2 \in RosterWorkers :
    (/\ norm_name(w1.name) = norm_name(w2.name)
     /\ last4_from_phone(w1.phoneNumber) # last4_from_phone(w2.phoneNumber))
      => get_login4_for_rider(w1, LOGIN4_FILE).login4
           # get_login4_for_rider(w2, LOGIN4_FILE).login4

====
